---- MODULE Spec2Model ----
(***************************************************************************)
(* A model of litetask: the SQLite-backed store (internal/store), the      *)
(* session tokens and HTTP handlers (internal/httpapi) and the Telegram    *)
(* bot (internal/tgbot).                                                   *)
(*                                                                         *)
(* The database is the record db: one field per table, rows as functions   *)
(* from the primary key, plus the AUTOINCREMENT counters (sqlite_sequence).*)
(* The store opens SQLite without the foreign_keys pragma, so the FOREIGN   *)
(* KEY clauses of the schema are not enforced and no ON DELETE CASCADE     *)
(* runs: only the statements the code issues change rows.                  *)
(* Store methods are operators from a database (and arguments) to a record *)
(* [db, err, ...]; handlers are operators from a database and a request to *)
(* a record [db, code, ...]; actions apply them.                           *)
(***************************************************************************)
EXTENDS Integers, Sequences, FiniteSets, TLC

VARIABLES
    db,       \* the database: users, projects, tasks, user_projects, seq
    now,      \* time.Now().Unix(), in days
    cookies,  \* the auth cookies browsers hold: a set of token strings
    procs,    \* store calls in flight, one per goroutine: their position and locals
    owner,    \* history: who made a thing (the restricted user whose POST made a
              \* project; the call whose UPDATE set a user's username)
    last      \* history: the last operation that changed the store, and its response

vars == <<db, now, cookies, procs, owner, last>>

\* ---------------------------------------------------------------- bounds
MaxUsers == 2       \* rows ever inserted into users
MaxProjects == 3    \* rows ever inserted into projects
MaxTasks == 2       \* rows ever inserted into tasks
MaxComments == 2    \* rows ever inserted into task_comments

\* ------------------------------------------------------------- constants
DefaultProjectID == 1
DefaultProjectName == <<"O", "b", "s", "h", "c", "h", "i", "y">>
AdminEmail == <<"admin@example.com">>

allowedStatuses == {"new", "in_progress", "done"}
allowedRoles == {"admin", "user", "blocked"}

ErrNone == "nil"
ErrNoRows == "sql: no rows in result set"
ErrInvalidStatus == "invalid status"
ErrInvalidRole == "invalid role"
ErrLastAdmin == "cannot remove last admin"
ErrUsernameSet == "username already set"
ErrProjectNotFound == "project not found"
ErrUnique == "UNIQUE constraint failed"
ErrUsernameRequired == "username required"
ErrPasswordShort == "password too short"

\* ---------------------------------------------------------------- values
NoTask == [ID |-> 0, Title |-> <<>>, Status |-> "", Description |-> <<>>, ProjectID |-> 0]
NoProject == [ID |-> 0, Name |-> <<>>]
NoUser == [ID |-> 0, Email |-> <<>>, Username |-> <<>>, Password |-> <<>>, Role |-> ""]

\* The ids of a set as an ascending sequence (ORDER BY project_id).
RECURSIVE SortedSeq(_)
SortedSeq(S) ==
    IF S = {} THEN <<>>
    ELSE LET m == CHOOSE x \in S : \A y \in S : x <= y
         IN <<m>> \o SortedSeq(S \ {m})

SeqToSet(s) == {s[i] : i \in 1..Len(s)}

\* bcrypt.GenerateFromPassword: the stored hash determines the password and is
\* never the plaintext (the salt is left out).
bcrypt(password) == <<"$2a$", password>>

AdminPassword == <<"c", "h", "a", "n", "g", "e", "m", "e", "1", "2", "3">>

\* ------------------------------------------------------------ the tables
\* Open on an empty file: setupSchema, ensureDefaultProject, ensureAdminUser.
ensureDefaultProject(d) ==
    IF DefaultProjectID \in DOMAIN d.projects
    THEN [d EXCEPT !.projects[DefaultProjectID] = [name |-> DefaultProjectName]]
    ELSE [d EXCEPT !.projects = (DefaultProjectID :> [name |-> DefaultProjectName]) @@ @,
                   !.seq.projects = IF @ < DefaultProjectID THEN DefaultProjectID ELSE @]

ensureAdminUser(d) ==
    IF \E u \in DOMAIN d.users : d.users[u].role = "admin"
    THEN d
    ELSE LET id == d.seq.users + 1
         IN [d EXCEPT !.users = (id :> [email |-> AdminEmail, username |-> <<>>,
                                        password_hash |-> bcrypt(AdminPassword),
                                        role |-> "admin"]) @@ @,
                      !.seq.users = id,
                      !.user_projects = @ \cup {<<id, DefaultProjectID>>}]

setupSchema ==
    [users |-> <<>>, projects |-> <<>>, tasks |-> <<>>, user_projects |-> {},
     task_comments |-> <<>>,
     seq |-> [users |-> 0, projects |-> 0, tasks |-> 0, task_comments |-> 0]]

Open == ensureAdminUser(ensureDefaultProject(setupSchema))

\* ------------------------------------------------------- store: projects
ProjectExists(d, id) == id \in DOMAIN d.projects

projectExistsTx(d, id) == id \in DOMAIN d.projects

GetProject(d, id) ==
    IF id \in DOMAIN d.projects THEN [ID |-> id, Name |-> d.projects[id].name]
    ELSE NoProject

\* CreateProject over a table declared without AUTOINCREMENT: the new id is
\* one more than the largest id now in the table.
CreateProject_ReusesIds(d, name) ==
    IF \E p \in DOMAIN d.projects : d.projects[p].name = name
    THEN [db |-> d, err |-> ErrUnique, project |-> NoProject]
    ELSE LET top == IF DOMAIN d.projects = {} THEN 0
                    ELSE CHOOSE m \in DOMAIN d.projects : \A p \in DOMAIN d.projects : p <= m
             id == top + 1
             d1 == [d EXCEPT !.projects = (id :> [name |-> name]) @@ @,
                             !.seq.projects = IF id > @ THEN id ELSE @]
         IN [db |-> d1, err |-> ErrNone, project |-> GetProject(d1, id)]

CreateProject(d, name) ==
    IF \E p \in DOMAIN d.projects : d.projects[p].name = name
    THEN [db |-> d, err |-> ErrUnique, project |-> NoProject]
    ELSE LET id == d.seq.projects + 1
             d1 == [d EXCEPT !.projects = (id :> [name |-> name]) @@ @,
                             !.seq.projects = id]
         IN [db |-> d1, err |-> ErrNone, project |-> GetProject(d1, id)]

ListProjects(d) == {GetProject(d, p) : p \in DOMAIN d.projects}

\* ---------------------------------------------------------- store: tasks
GetTask(d, id) ==
    IF id \in DOMAIN d.tasks
    THEN [err |-> ErrNone,
          task |-> [ID |-> id, Title |-> d.tasks[id].title, Status |-> d.tasks[id].status,
                    Description |-> d.tasks[id].description,
                    ProjectID |-> d.tasks[id].project_id]]
    ELSE [err |-> ErrNoRows, task |-> NoTask]

\* The INSERT of InsertTask and the SELECT that follows it.
InsertTaskExec(d, title, description, projectID) ==
    LET id == d.seq.tasks + 1
        d1 == [d EXCEPT !.tasks = (id :> [title |-> title, status |-> "new",
                                          description |-> description,
                                          project_id |-> projectID]) @@ @,
                        !.seq.tasks = id]
    IN [db |-> d1, err |-> ErrNone, task |-> GetTask(d1, id).task]

\* InsertTask without the ProjectExists check.
InsertTask_Unchecked(d, title, description, projectID) ==
    InsertTaskExec(d, title, description, projectID)

InsertTask(d, title, description, projectID) ==
    IF ~ProjectExists(d, projectID)
    THEN [db |-> d, err |-> ErrProjectNotFound, task |-> NoTask]
    ELSE InsertTaskExec(d, title, description, projectID)

\* SetTaskStatus that looks the task up before it checks the status.
SetTaskStatus_ExistenceFirst(d, id, status) ==
    IF id \notin DOMAIN d.tasks
    THEN [db |-> d, err |-> ErrNoRows, task |-> NoTask]
    ELSE IF status \notin allowedStatuses
    THEN [db |-> d, err |-> ErrInvalidStatus, task |-> NoTask]
    ELSE LET d1 == [d EXCEPT !.tasks[id].status = status]
         IN [db |-> d1, err |-> ErrNone, task |-> GetTask(d1, id).task]

\* SetTaskStatus that treats done as final.
SetTaskStatus_DoneIsFinal(d, id, status) ==
    IF status \notin allowedStatuses
    THEN [db |-> d, err |-> ErrInvalidStatus, task |-> NoTask]
    ELSE IF id \notin DOMAIN d.tasks
    THEN [db |-> d, err |-> ErrNoRows, task |-> NoTask]
    ELSE IF d.tasks[id].status = "done" /\ status # "done"
    THEN [db |-> d, err |-> ErrInvalidStatus, task |-> NoTask]
    ELSE LET d1 == [d EXCEPT !.tasks[id].status = status]
         IN [db |-> d1, err |-> ErrNone, task |-> GetTask(d1, id).task]

SetTaskStatus(d, id, status) ==
    IF status \notin allowedStatuses
    THEN [db |-> d, err |-> ErrInvalidStatus, task |-> NoTask]
    ELSE IF id \notin DOMAIN d.tasks
    THEN [db |-> d, err |-> ErrNoRows, task |-> NoTask]
    ELSE LET d1 == [d EXCEPT !.tasks[id].status = status]
         IN [db |-> d1, err |-> ErrNone, task |-> GetTask(d1, id).task]

SetTaskDescription(d, id, description) ==
    IF id \notin DOMAIN d.tasks
    THEN [db |-> d, err |-> ErrNoRows, task |-> NoTask]
    ELSE LET d1 == [d EXCEPT !.tasks[id].description = description]
         IN [db |-> d1, err |-> ErrNone, task |-> GetTask(d1, id).task]

\* The UPDATE that writes only a column nobody has written yet.
UpdateTaskExec_UnlessChanged(d, id, column, value) ==
    IF id \notin DOMAIN d.tasks \/ d.tasks[id][column] # (IF column = "status" THEN "new" ELSE <<>>)
    THEN [db |-> d, affected |-> 0]
    ELSE [db |-> [d EXCEPT !.tasks[id][column] = value], affected |-> 1]

\* The UPDATE statement of SetTaskStatus (column status) and of
\* SetTaskDescription (column description), with the rows it affected.
UpdateTaskExec(d, id, column, value) ==
    IF id \notin DOMAIN d.tasks THEN [db |-> d, affected |-> 0]
    ELSE [db |-> [d EXCEPT !.tasks[id][column] = value], affected |-> 1]

DeleteTask(d, id) ==
    IF id \notin DOMAIN d.tasks
    THEN [db |-> d, err |-> ErrNoRows]
    ELSE [db |-> [d EXCEPT !.tasks = [t \in DOMAIN d.tasks \ {id} |-> d.tasks[t]]],
          err |-> ErrNone]

\* DeleteProject that returns without undoing the first DELETE.
DeleteProject_NoRollback(d, id) ==
    LET keep == {t \in DOMAIN d.tasks : d.tasks[t].project_id # id}
        tx1 == [d EXCEPT !.tasks = [t \in keep |-> d.tasks[t]]]
        tx2 == [tx1 EXCEPT !.projects = [p \in DOMAIN tx1.projects \ {id} |-> tx1.projects[p]]]
    IN IF id \notin DOMAIN tx1.projects
       THEN [db |-> tx1, err |-> ErrNoRows]
       ELSE [db |-> tx2, err |-> ErrNone]

\* DeleteProject that leaves the tasks to the foreign key's ON DELETE
\* CASCADE, which the connection does not enforce.
DeleteProject_NoTaskDelete(d, id) ==
    IF id \notin DOMAIN d.projects
    THEN [db |-> d, err |-> ErrNoRows]
    ELSE [db |-> [d EXCEPT !.projects = [p \in DOMAIN d.projects \ {id} |-> d.projects[p]]],
          err |-> ErrNone]

\* DeleteProject: BEGIN; DELETE FROM tasks WHERE project_id = id; DELETE FROM
\* projects WHERE id = id; no row affected: return (the deferred Rollback
\* restores the tasks); otherwise Commit.
DeleteProject(d, id) ==
    LET keep == {t \in DOMAIN d.tasks : d.tasks[t].project_id # id}
        tx1 == [d EXCEPT !.tasks = [t \in keep |-> d.tasks[t]]]
        affected == IF id \in DOMAIN tx1.projects THEN 1 ELSE 0
        tx2 == [tx1 EXCEPT !.projects = [p \in DOMAIN tx1.projects \ {id} |-> tx1.projects[p]]]
    IN IF affected = 0
       THEN [db |-> d, err |-> ErrNoRows]
       ELSE [db |-> tx2, err |-> ErrNone]

\* ------------------------------------------------------- store: comments
\* The connection is opened without foreign-key enforcement, so the INSERT
\* does not look the task up and no DELETE reaches task_comments through
\* ON DELETE CASCADE. author_id 0 is stored as NULL.
AddTaskComment(d, taskID, body, authorID) ==
    LET id == d.seq.task_comments + 1
        d1 == [d EXCEPT !.task_comments = (id :> [task_id |-> taskID, body |-> body,
                                                  author_id |-> authorID]) @@ @,
                        !.seq.task_comments = id]
    IN [db |-> d1, err |-> ErrNone,
        comment |-> [ID |-> id, TaskID |-> taskID, Body |-> body, AuthorID |-> authorID]]

\* The ids of the comments ListTaskComments(taskID) returns.
ListTaskComments(d, taskID) ==
    {c \in DOMAIN d.task_comments : d.task_comments[c].task_id = taskID}

DeleteTaskComment(d, commentID) ==
    IF commentID \notin DOMAIN d.task_comments
    THEN [db |-> d, err |-> ErrNoRows]
    ELSE [db |-> [d EXCEPT !.task_comments =
                     [c \in DOMAIN d.task_comments \ {commentID} |-> d.task_comments[c]]],
          err |-> ErrNone]

\* ---------------------------------------------------------- store: users
UpperChars == <<"A", "B", "C", "D", "E", "F", "G", "H", "I", "J", "K", "L", "M",
                "N", "O", "P", "Q", "R", "S", "T", "U", "V", "W", "X", "Y", "Z">>
LowerChars == <<"a", "b", "c", "d", "e", "f", "g", "h", "i", "j", "k", "l", "m",
                "n", "o", "p", "q", "r", "s", "t", "u", "v", "w", "x", "y", "z">>
DigitChars == <<"0", "1", "2", "3", "4", "5", "6", "7", "8", "9">>

\* strings.ToLower on a string held as a sequence of characters.
ToLowerChar(c) ==
    IF \E i \in 1..Len(UpperChars) : UpperChars[i] = c
    THEN LowerChars[CHOOSE i \in 1..Len(UpperChars) : UpperChars[i] = c]
    ELSE c

ToLower(s) == [i \in 1..Len(s) |-> ToLowerChar(s[i])]

IsSpace(c) == c \in {" ", "\t", "\n", "\r"}

\* strings.TrimSpace.
RECURSIVE TrimLeft(_)
TrimLeft(s) == IF s # <<>> /\ IsSpace(Head(s)) THEN TrimLeft(Tail(s)) ELSE s

RECURSIVE TrimRight(_)
TrimRight(s) ==
    IF s # <<>> /\ IsSpace(s[Len(s)]) THEN TrimRight(SubSeq(s, 1, Len(s) - 1)) ELSE s

TrimSpace(s) == TrimRight(TrimLeft(s))

MinUsernameLen == 3
MaxUsernameLen == 32

validateUsername(username) ==
    IF Len(username) < MinUsernameLen \/ Len(username) > MaxUsernameLen
    THEN "username must be 3-32 characters"
    ELSE IF \E i \in 1..Len(username) : username[i] = "@"
    THEN "username cannot contain @"
    ELSE IF \E i \in 1..Len(username) :
                username[i] \notin SeqToSet(LowerChars) \cup SeqToSet(DigitChars)
                                   \cup {"_", "-", "."}
    THEN "username has invalid characters"
    ELSE ErrNone

UserOf(d, id) ==
    [ID |-> id, Email |-> d.users[id].email, Username |-> d.users[id].username,
     Password |-> d.users[id].password_hash, Role |-> d.users[id].role]

GetUserByID(d, id) ==
    IF id \in DOMAIN d.users THEN [err |-> ErrNone, user |-> UserOf(d, id)]
    ELSE [err |-> ErrNoRows, user |-> NoUser]

GetUserByEmail(d, email) ==
    IF \E u \in DOMAIN d.users : d.users[u].email = email
    THEN [err |-> ErrNone,
          user |-> UserOf(d, CHOOSE u \in DOMAIN d.users : d.users[u].email = email)]
    ELSE [err |-> ErrNoRows, user |-> NoUser]

GetUserProjects(d, userID) ==
    SortedSeq({p \in 1..d.seq.projects : <<userID, p>> \in d.user_projects})

UpdateUserPassword(d, id, password) ==
    IF Len(password) < 6 THEN [db |-> d, err |-> ErrPasswordShort, user |-> NoUser]
    ELSE IF id \notin DOMAIN d.users THEN [db |-> d, err |-> ErrNoRows, user |-> NoUser]
    ELSE LET d1 == [d EXCEPT !.users[id].password_hash = bcrypt(password)]
         IN [db |-> d1, err |-> ErrNone, user |-> UserOf(d1, id)]

\* SetUserProjects: one transaction. Every id is looked up first; then the
\* user's rows are deleted and one row per list element is inserted, a
\* repeated element failing on the primary key. Any error returns before
\* Commit and the deferred Rollback restores the rows.
RECURSIVE InsertGrants(_, _, _)
InsertGrants(rows, userID, projectIDs) ==
    IF projectIDs = <<>> THEN [rows |-> rows, err |-> ErrNone]
    ELSE IF <<userID, Head(projectIDs)>> \in rows THEN [rows |-> rows, err |-> ErrUnique]
    ELSE InsertGrants(rows \cup {<<userID, Head(projectIDs)>>}, userID, Tail(projectIDs))

\* SetUserProjects without the deferred Rollback: a refused INSERT leaves
\* the DELETE and the rows inserted before it in place.
SetUserProjects_NoRollback(d, userID, projectIDs) ==
    IF \E i \in 1..Len(projectIDs) : ~projectExistsTx(d, projectIDs[i])
    THEN [db |-> d, err |-> ErrProjectNotFound]
    ELSE LET cleared == {g \in d.user_projects : g[1] # userID}
             ins == InsertGrants(cleared, userID, projectIDs)
         IN [db |-> [d EXCEPT !.user_projects = ins.rows], err |-> ins.err]

SetUserProjects(d, userID, projectIDs) ==
    IF \E i \in 1..Len(projectIDs) : ~projectExistsTx(d, projectIDs[i])
    THEN [db |-> d, err |-> ErrProjectNotFound]
    ELSE LET cleared == {g \in d.user_projects : g[1] # userID}
             ins == InsertGrants(cleared, userID, projectIDs)
         IN IF ins.err # ErrNone
            THEN [db |-> d, err |-> ins.err]
            ELSE [db |-> [d EXCEPT !.user_projects = ins.rows], err |-> ErrNone]

\* CreateUser that returns after the SELECT, without SetUserProjects.
CreateUser_NoGrant(d, email, username, password, role) ==
    LET name == TrimSpace(ToLower(username))
        id == d.seq.users + 1
        d1 == [d EXCEPT !.users = (id :> [email |-> email, username |-> name,
                                          password_hash |-> bcrypt(password),
                                          role |-> role]) @@ @,
                        !.seq.users = id]
    IN IF \E u \in DOMAIN d.users : d.users[u].email = email
       THEN [db |-> d, err |-> ErrUnique, user |-> NoUser]
       ELSE [db |-> d1, err |-> ErrNone, user |-> UserOf(d1, id)]

\* CreateUser that returns the values it was called with instead of the
\* row it reads back.
CreateUser_EchoesInput(d, email, username, password, role) ==
    LET name == TrimSpace(ToLower(username))
        id == d.seq.users + 1
        d1 == [d EXCEPT !.users = (id :> [email |-> email, username |-> name,
                                          password_hash |-> bcrypt(password),
                                          role |-> role]) @@ @,
                        !.seq.users = id]
    IN IF name # <<>> /\ validateUsername(name) # ErrNone
       THEN [db |-> d, err |-> validateUsername(name), user |-> NoUser]
       ELSE IF \/ \E u \in DOMAIN d.users : d.users[u].email = email
               \/ name # <<>> /\ \E u \in DOMAIN d.users : d.users[u].username = name
       THEN [db |-> d, err |-> ErrUnique, user |-> NoUser]
       ELSE [db |-> SetUserProjects(d1, id, <<DefaultProjectID>>).db, err |-> ErrNone,
             user |-> [ID |-> id, Email |-> email, Username |-> username,
                       Password |-> bcrypt(password), Role |-> role]]

CreateUser(d, email, username, password, role) ==
    LET name == TrimSpace(ToLower(username))
    IN IF name # <<>> /\ validateUsername(name) # ErrNone
       THEN [db |-> d, err |-> validateUsername(name), user |-> NoUser]
       ELSE IF \/ \E u \in DOMAIN d.users : d.users[u].email = email
               \/ name # <<>> /\ \E u \in DOMAIN d.users : d.users[u].username = name
       THEN [db |-> d, err |-> ErrUnique, user |-> NoUser]
       ELSE LET id == d.seq.users + 1
                d1 == [d EXCEPT !.users = (id :> [email |-> email, username |-> name,
                                                  password_hash |-> bcrypt(password),
                                                  role |-> role]) @@ @,
                                !.seq.users = id]
                u == UserOf(d1, id)
            IN [db |-> SetUserProjects(d1, id, <<DefaultProjectID>>).db,
                err |-> ErrNone, user |-> u]

countAdmins(d) == Cardinality({u \in DOMAIN d.users : d.users[u].role = "admin"})

\* The three statements of UpdateUserRole, each run on the database as it is
\* when the statement executes.
SelectRole(d, id) ==
    IF id \in DOMAIN d.users THEN [err |-> ErrNone, role |-> d.users[id].role]
    ELSE [err |-> ErrNoRows, role |-> ""]

\* UpdateUserRole without the count of the remaining admins.
LastAdminCheck_Unguarded(currentRole, role, count) == ErrNone

LastAdminCheck(currentRole, role, count) ==
    IF currentRole = "admin" /\ role # "admin" /\ count <= 1 THEN ErrLastAdmin ELSE ErrNone

UpdateRoleExec(d, id, role) ==
    IF id \notin DOMAIN d.users
    THEN [db |-> d, err |-> ErrNoRows, user |-> NoUser]
    ELSE LET d1 == [d EXCEPT !.users[id].role = role]
         IN [db |-> d1, err |-> ErrNone, user |-> UserOf(d1, id)]

\* UpdateUserRole run without another call in between.
UpdateUserRole(d, id, role) ==
    IF role \notin allowedRoles
    THEN [db |-> d, err |-> ErrInvalidRole, user |-> NoUser]
    ELSE IF SelectRole(d, id).err # ErrNone
    THEN [db |-> d, err |-> SelectRole(d, id).err, user |-> NoUser]
    ELSE IF LastAdminCheck(SelectRole(d, id).role, role, countAdmins(d)) # ErrNone
    THEN [db |-> d, err |-> ErrLastAdmin, user |-> NoUser]
    ELSE UpdateRoleExec(d, id, role)

\* The statements of SetUsernameOnce.
NormalizeUsername(username) == TrimSpace(ToLower(username))

CheckUsername(name) ==
    IF name = <<>> THEN ErrUsernameRequired ELSE validateUsername(name)

\* The UPDATE without its condition on the stored username.
UpdateUsernameIfEmpty_Unconditional(d, id, name) ==
    IF id \notin DOMAIN d.users THEN [db |-> d, err |-> ErrNone, affected |-> 0]
    ELSE [db |-> [d EXCEPT !.users[id].username = name], err |-> ErrNone, affected |-> 1]

\* UPDATE users SET username = ? WHERE id = ? AND (username IS NULL OR username = '')
\* under the partial unique index idx_users_username.
UpdateUsernameIfEmpty(d, id, name) ==
    IF id \notin DOMAIN d.users \/ d.users[id].username # <<>>
    THEN [db |-> d, err |-> ErrNone, affected |-> 0]
    ELSE IF \E u \in DOMAIN d.users : d.users[u].username = name
    THEN [db |-> d, err |-> ErrUnique, affected |-> 0]
    ELSE [db |-> [d EXCEPT !.users[id].username = name], err |-> ErrNone, affected |-> 1]

\* The SELECT after the UPDATE, its result not looked at.
UsernameNotUpdated_Unread(d, id) == ErrNoRows

\* The SELECT that follows an UPDATE which changed no row.
UsernameNotUpdated(d, id) ==
    IF id \notin DOMAIN d.users THEN ErrNoRows
    ELSE IF TrimSpace(d.users[id].username) # <<>> THEN ErrUsernameSet
    ELSE ErrNoRows

\* SetUsernameOnce run without another call in between.
SetUsernameOnce(d, id, username) ==
    LET name == NormalizeUsername(username)
        upd == UpdateUsernameIfEmpty(d, id, name)
    IN IF CheckUsername(name) # ErrNone
       THEN [db |-> d, err |-> CheckUsername(name), user |-> NoUser]
       ELSE IF upd.err # ErrNone
       THEN [db |-> d, err |-> upd.err, user |-> NoUser]
       ELSE IF upd.affected = 0
       THEN [db |-> d, err |-> UsernameNotUpdated(d, id), user |-> NoUser]
       ELSE [db |-> upd.db, err |-> ErrNone, user |-> GetUserByID(upd.db, id).user]

\* ------------------------------------------------------- session tokens
\* Token strings, payloads and secrets are sequences of byte values.
authExpiry == 30    \* 30 * 24 * time.Hour, in days

Dot == 46
Colon == 58

RoleBytes(role) ==
    CASE role = "admin" -> <<97, 100, 109, 105, 110>>
      [] role = "user" -> <<117, 115, 101, 114>>
      [] role = "blocked" -> <<98, 108, 111, 99, 107, 101, 100>>
      [] OTHER -> <<>>

\* fmt.Sprintf("%d", n).
RECURSIVE Digits(_)
Digits(n) == IF n < 10 THEN <<48 + n>> ELSE Digits(n \div 10) \o <<48 + (n % 10)>>

Itoa(n) == IF n < 0 THEN <<45>> \o Digits(0 - n) ELSE Digits(n)

\* strconv.ParseInt(s, 10, 64): an optional sign and at least one digit.
RECURSIVE DigitsValue(_)
DigitsValue(s) ==
    IF s = <<>> THEN 0 ELSE 10 * DigitsValue(SubSeq(s, 1, Len(s) - 1)) + (s[Len(s)] - 48)

ParseInt(s) ==
    LET signed == s # <<>> /\ s[1] \in {43, 45}
        body == IF signed THEN Tail(s) ELSE s
    IN IF body = <<>> \/ \E i \in 1..Len(body) : body[i] < 48 \/ body[i] > 57
       THEN [err |-> "invalid syntax", val |-> 0]
       ELSE [err |-> ErrNone,
             val |-> IF signed /\ s[1] = 45 THEN 0 - DigitsValue(body) ELSE DigitsValue(body)]

\* strings.Split(s, sep) for a one-byte separator.
RECURSIVE Split(_, _)
Split(s, sep) ==
    IF \A i \in 1..Len(s) : s[i] # sep THEN <<s>>
    ELSE LET k == CHOOSE i \in 1..Len(s) : s[i] = sep /\ \A j \in 1..(i - 1) : s[j] # sep
         IN <<SubSeq(s, 1, k - 1)>> \o Split(SubSeq(s, k + 1, Len(s)), sep)

\* base64.RawStdEncoding: the standard alphabet, no padding.
B64Char(i) ==
    IF i < 26 THEN 65 + i
    ELSE IF i < 52 THEN 97 + (i - 26)
    ELSE IF i < 62 THEN 48 + (i - 52)
    ELSE IF i = 62 THEN 43 ELSE 47

B64Index(c) ==
    IF c >= 65 /\ c <= 90 THEN c - 65
    ELSE IF c >= 97 /\ c <= 122 THEN c - 97 + 26
    ELSE IF c >= 48 /\ c <= 57 THEN c - 48 + 52
    ELSE IF c = 43 THEN 62
    ELSE IF c = 47 THEN 63 ELSE 0 - 1

RECURSIVE EncodeToString(_)
EncodeToString(b) ==
    IF Len(b) = 0 THEN <<>>
    ELSE IF Len(b) = 1
    THEN <<B64Char(b[1] \div 4), B64Char((b[1] % 4) * 16)>>
    ELSE IF Len(b) = 2
    THEN <<B64Char(b[1] \div 4), B64Char((b[1] % 4) * 16 + b[2] \div 16),
           B64Char((b[2] % 16) * 4)>>
    ELSE <<B64Char(b[1] \div 4), B64Char((b[1] % 4) * 16 + b[2] \div 16),
           B64Char((b[2] % 16) * 4 + b[3] \div 64), B64Char(b[3] % 64)>>
         \o EncodeToString(SubSeq(b, 4, Len(b)))

RECURSIVE DecodeSextets(_)
DecodeSextets(x) ==
    IF Len(x) < 2 THEN <<>>
    ELSE IF Len(x) = 2 THEN <<x[1] * 4 + x[2] \div 16>>
    ELSE IF Len(x) = 3 THEN <<x[1] * 4 + x[2] \div 16, (x[2] % 16) * 16 + x[3] \div 4>>
    ELSE <<x[1] * 4 + x[2] \div 16, (x[2] % 16) * 16 + x[3] \div 4, (x[3] % 4) * 64 + x[4]>>
         \o DecodeSextets(SubSeq(x, 5, Len(x)))

DecodeString(s) ==
    IF (\E i \in 1..Len(s) : B64Index(s[i]) < 0) \/ Len(s) % 4 = 1
    THEN [err |-> "illegal base64 data", bytes |-> <<>>]
    ELSE [err |-> ErrNone, bytes |-> DecodeSextets([i \in 1..Len(s) |-> B64Index(s[i])])]

\* HMAC-SHA256 as a collision-free function of the key and the message: the
\* digest stands for the pair, so two digests agree only when key and message do.
HmacSha256(secret, payload) == <<Len(secret)>> \o secret \o payload

sign(secret, payload) == EncodeToString(HmacSha256(secret, payload))

\* verify that compares the lengths of the two signatures only.
verify_LengthOnly(secret, payload, sig) == Len(sign(secret, payload)) = Len(sig)

verify(secret, payload, sig) == sign(secret, payload) = sig

\* createToken at time t (time.Now().Unix() inside the function).
createToken(u, secret, t) ==
    LET exp == t + authExpiry
        payload == Itoa(u.ID) \o <<Colon>> \o RoleBytes(u.Role) \o <<Colon>> \o Itoa(exp)
    IN EncodeToString(payload) \o <<Dot>> \o sign(secret, payload)

NoClaims == [UserID |-> 0, Role |-> <<>>, Exp |-> 0]

\* parseToken at time t.
parseToken(token, secret, t) ==
    LET parts == Split(token, Dot)
        dec == DecodeString(parts[1])
        payload == dec.bytes
        items == Split(payload, Colon)
        id == ParseInt(items[1])
        expUnix == ParseInt(items[3])
    IN IF Len(parts) # 2 THEN [err |-> "invalid token", claims |-> NoClaims]
       ELSE IF dec.err # ErrNone THEN [err |-> dec.err, claims |-> NoClaims]
       ELSE IF ~verify(secret, payload, parts[2])
       THEN [err |-> "invalid signature", claims |-> NoClaims]
       ELSE IF Len(items) # 3 THEN [err |-> "invalid payload", claims |-> NoClaims]
       ELSE IF id.err # ErrNone THEN [err |-> id.err, claims |-> NoClaims]
       ELSE IF expUnix.err # ErrNone THEN [err |-> expUnix.err, claims |-> NoClaims]
       ELSE IF t > expUnix.val THEN [err |-> "token expired", claims |-> NoClaims]
       ELSE [err |-> ErrNone,
             claims |-> [UserID |-> id.val, Role |-> items[2], Exp |-> expUnix.val]]

\* ------------------------------------------------------------ httpapi
Secret == <<7, 9>>          \* Server.authSecret, fixed at startup
allowRegistration == TRUE   \* ALLOW_REGISTRATION
MinPasswordLen == 6

StatusOK == 200
StatusNoContent == 204
StatusBadRequest == 400
StatusUnauthorized == 401
StatusForbidden == 403
StatusNotFound == 404
StatusInternalServerError == 500

NoCookie == <<>>    \* the request has no cookie named auth

\* authenticate that takes the role from the token's claims.
authenticate_TokenRole(d, cookie, t) ==
    LET parsed == parseToken(cookie, Secret, t)
        got == GetUserByID(d, parsed.claims.UserID)
        role == CHOOSE r \in allowedRoles : RoleBytes(r) = parsed.claims.Role
    IN IF cookie = NoCookie THEN [err |-> "http: named cookie not present", user |-> NoUser]
       ELSE IF parsed.err # ErrNone THEN [err |-> parsed.err, user |-> NoUser]
       ELSE IF got.err # ErrNone THEN [err |-> got.err, user |-> NoUser]
       ELSE IF role = "blocked" THEN [err |-> "blocked", user |-> NoUser]
       ELSE [err |-> ErrNone, user |-> [got.user EXCEPT !.Role = role]]

\* authenticate without its check of the stored role for "blocked".
authenticate_NoBlockedCheck(d, cookie, t) ==
    LET parsed == parseToken(cookie, Secret, t)
        got == GetUserByID(d, parsed.claims.UserID)
    IN IF cookie = NoCookie THEN [err |-> "http: named cookie not present", user |-> NoUser]
       ELSE IF parsed.err # ErrNone THEN [err |-> parsed.err, user |-> NoUser]
       ELSE IF got.err # ErrNone THEN [err |-> got.err, user |-> NoUser]
       ELSE [err |-> ErrNone, user |-> got.user]

authenticate(d, cookie, t) ==
    LET parsed == parseToken(cookie, Secret, t)
        got == GetUserByID(d, parsed.claims.UserID)
    IN IF cookie = NoCookie THEN [err |-> "http: named cookie not present", user |-> NoUser]
       ELSE IF parsed.err # ErrNone THEN [err |-> parsed.err, user |-> NoUser]
       ELSE IF got.err # ErrNone THEN [err |-> got.err, user |-> NoUser]
       ELSE IF got.user.Role = "blocked" THEN [err |-> "blocked", user |-> NoUser]
       ELSE [err |-> ErrNone, user |-> got.user]

NoAuth == [user |-> NoUser, allowed |-> {}, isRestricted |-> FALSE]

\* requireUser and requireAdmin up to next.ServeHTTP: code 0 lets the request
\* through to the wrapped handler with auth in its context.
requireUser(d, cookie, t) ==
    LET a == authenticate(d, cookie, t)
    IN IF a.err # ErrNone THEN [code |-> StatusUnauthorized, auth |-> NoAuth]
       ELSE IF a.user.Role = "blocked" THEN [code |-> StatusForbidden, auth |-> NoAuth]
       ELSE IF a.user.Role # "admin"
       THEN [code |-> 0,
             auth |-> [user |-> a.user, allowed |-> SeqToSet(GetUserProjects(d, a.user.ID)),
                       isRestricted |-> TRUE]]
       ELSE [code |-> 0, auth |-> [user |-> a.user, allowed |-> {}, isRestricted |-> FALSE]]

requireAdmin(d, cookie, t) ==
    LET a == authenticate(d, cookie, t)
    IN IF a.err # ErrNone THEN [code |-> StatusUnauthorized, auth |-> NoAuth]
       ELSE IF a.user.Role # "admin" THEN [code |-> StatusForbidden, auth |-> NoAuth]
       ELSE [code |-> 0, auth |-> [user |-> a.user, allowed |-> {}, isRestricted |-> FALSE]]

\* canAccess that lets every project through.
canAccess_Open(a, projectID) == TRUE

canAccess(a, projectID) == IF ~a.isRestricted THEN TRUE ELSE projectID \in a.allowed

\* A handler's result: the database it leaves, the status code, the id of the
\* entity in the response body (0: none).
Resp(d, code, id) == [db |-> d, code |-> code, id |-> id]

\* listProjects that answers a restricted user with the granted ids
\* themselves instead of filtering the stored projects by them.
listProjects_GrantsOnly(d, auth) ==
    IF auth.isRestricted THEN auth.allowed ELSE {p.ID : p \in ListProjects(d)}

\* GET /api/projects: the ids of the projects in the response.
listProjects(d, auth) ==
    LET projects == {p.ID : p \in ListProjects(d)}
    IN IF auth.isRestricted THEN {p \in projects : p \in auth.allowed} ELSE projects

createProjectHandler(d, auth, name) ==
    LET trimmed == TrimSpace(name)
        made == CreateProject(d, trimmed)
        current == GetUserProjects(made.db, auth.user.ID)
        granted == SetUserProjects(made.db, auth.user.ID, Append(current, made.project.ID))
    IN IF trimmed = <<>> THEN Resp(d, StatusBadRequest, 0)
       ELSE IF made.err # ErrNone THEN Resp(d, StatusBadRequest, 0)
       ELSE IF auth.isRestricted THEN Resp(granted.db, StatusOK, made.project.ID)
       ELSE Resp(made.db, StatusOK, made.project.ID)

\* deleteProjectHandler without the role check.
deleteProjectHandler_NoRoleCheck(d, auth, id) ==
    LET del == DeleteProject(d, id)
    IN IF id = DefaultProjectID THEN Resp(d, StatusBadRequest, 0)
       ELSE IF del.err = ErrNoRows THEN Resp(del.db, StatusNotFound, 0)
       ELSE IF del.err # ErrNone THEN Resp(del.db, StatusInternalServerError, 0)
       ELSE Resp(del.db, StatusNoContent, 0)

deleteProjectHandler(d, auth, id) ==
    LET del == DeleteProject(d, id)
    IN IF id = DefaultProjectID THEN Resp(d, StatusBadRequest, 0)
       ELSE IF auth.user.Role # "admin" THEN Resp(d, StatusForbidden, 0)
       ELSE IF del.err = ErrNoRows THEN Resp(del.db, StatusNotFound, 0)
       ELSE IF del.err # ErrNone THEN Resp(del.db, StatusInternalServerError, 0)
       ELSE Resp(del.db, StatusNoContent, 0)

createTask(d, auth, title, comment, projectID) ==
    LET pid == IF projectID = 0 THEN DefaultProjectID ELSE projectID
        created == InsertTask(d, TrimSpace(title), TrimSpace(comment), pid)
    IN IF auth.isRestricted /\ ~canAccess(auth, pid) THEN Resp(d, StatusForbidden, 0)
       ELSE IF TrimSpace(title) = <<>> THEN Resp(d, StatusBadRequest, 0)
       ELSE IF created.err = ErrProjectNotFound THEN Resp(created.db, StatusBadRequest, 0)
       ELSE IF created.err # ErrNone THEN Resp(created.db, StatusInternalServerError, 0)
       ELSE Resp(created.db, StatusOK, created.task.ID)

updateStatus(d, auth, id, status) ==
    LET existing == GetTask(d, id)
        updated == SetTaskStatus(d, id, status)
    IN IF existing.err = ErrNoRows THEN Resp(d, StatusNotFound, 0)
       ELSE IF auth.isRestricted /\ ~canAccess(auth, existing.task.ProjectID)
       THEN Resp(d, StatusForbidden, 0)
       ELSE IF updated.err = ErrNoRows THEN Resp(updated.db, StatusNotFound, 0)
       ELSE IF updated.err = ErrInvalidStatus THEN Resp(updated.db, StatusBadRequest, 0)
       ELSE Resp(updated.db, StatusOK, updated.task.ID)

updateComment(d, auth, id, comment) ==
    LET existing == GetTask(d, id)
        updated == SetTaskDescription(d, id, TrimSpace(comment))
    IN IF existing.err = ErrNoRows THEN Resp(d, StatusNotFound, 0)
       ELSE IF auth.isRestricted /\ ~canAccess(auth, existing.task.ProjectID)
       THEN Resp(d, StatusForbidden, 0)
       ELSE IF updated.err = ErrNoRows THEN Resp(updated.db, StatusNotFound, 0)
       ELSE Resp(updated.db, StatusOK, updated.task.ID)

\* deleteTaskHandler that answers 404 also for a task outside the caller's
\* projects.
deleteTaskHandler_HidesTask(d, auth, id) ==
    LET existing == GetTask(d, id)
        del == DeleteTask(d, id)
    IN IF existing.err = ErrNoRows THEN Resp(d, StatusNotFound, 0)
       ELSE IF auth.isRestricted /\ ~canAccess(auth, existing.task.ProjectID)
       THEN Resp(d, StatusNotFound, 0)
       ELSE IF del.err = ErrNoRows THEN Resp(del.db, StatusNotFound, 0)
       ELSE Resp(del.db, StatusNoContent, 0)

deleteTaskHandler(d, auth, id) ==
    LET existing == GetTask(d, id)
        del == DeleteTask(d, id)
    IN IF existing.err = ErrNoRows THEN Resp(d, StatusNotFound, 0)
       ELSE IF auth.isRestricted /\ ~canAccess(auth, existing.task.ProjectID)
       THEN Resp(d, StatusForbidden, 0)
       ELSE IF del.err = ErrNoRows THEN Resp(del.db, StatusNotFound, 0)
       ELSE Resp(del.db, StatusNoContent, 0)

\* FetchTasks: the ids of the rows selected (the rows come newest first).
\* The conditions are joined with AND; an empty allowed set adds none.
FetchTasks_NoProjectFilter(d, projectID, status, allowed) ==
    {t \in DOMAIN d.tasks :
        /\ allowed # {} => d.tasks[t].project_id \in allowed
        /\ status # "" => d.tasks[t].status = status}

FetchTasks(d, projectID, status, allowed) ==
    {t \in DOMAIN d.tasks :
        /\ projectID > 0 => d.tasks[t].project_id = projectID
        /\ allowed # {} => d.tasks[t].project_id \in allowed
        /\ status # "" => d.tasks[t].status = status}

\* listTasks that leaves the scoping to FetchTasks' allowed set.
listTasks_FilterOnly(d, auth, pid) ==
    LET parsed == ParseInt(pid)
        projectID == IF pid = <<>> THEN 0 ELSE parsed.val
    IN IF pid # <<>> /\ parsed.err # ErrNone THEN [code |-> StatusBadRequest, tasks |-> {}]
       ELSE [code |-> StatusOK, tasks |-> FetchTasks(d, projectID, "", auth.allowed)]

\* GET /api/tasks?projectId=pid: pid is the text of the query parameter,
\* empty when the parameter is absent.
listTasks(d, auth, pid) ==
    LET parsed == ParseInt(pid)
        projectID == IF pid = <<>> THEN 0 ELSE parsed.val
    IN IF pid # <<>> /\ parsed.err # ErrNone THEN [code |-> StatusBadRequest, tasks |-> {}]
       ELSE IF auth.isRestricted /\ (projectID = 0 \/ ~canAccess(auth, projectID))
       THEN [code |-> StatusForbidden, tasks |-> {}]
       ELSE [code |-> StatusOK, tasks |-> FetchTasks(d, projectID, "", auth.allowed)]

\* POST /api/users.
createUserHandler(d, email, password, role) ==
    LET r == IF role = "" THEN "user" ELSE role
        made == CreateUser(d, email, <<>>, TrimSpace(password), r)
    IN IF email = <<>> \/ TrimSpace(password) = <<>> THEN Resp(d, StatusBadRequest, 0)
       ELSE IF Len(TrimSpace(password)) < MinPasswordLen THEN Resp(d, StatusBadRequest, 0)
       ELSE IF r \notin {"user", "admin", "blocked"} THEN Resp(d, StatusBadRequest, 0)
       ELSE IF made.err = ErrUnique THEN Resp(made.db, StatusBadRequest, 0)
       ELSE IF made.err # ErrNone THEN Resp(made.db, StatusInternalServerError, 0)
       ELSE Resp(made.db, StatusOK, made.user.ID)

\* PATCH /api/users/{id}: role, then password, then projectIds, each applied
\* to the database the step before left. hasIDs: the body has projectIds.
handleUserActions(d, id, role, password, hasIDs, projectIDs) ==
    LET pw == TrimSpace(password)
        r1 == IF role # "" THEN UpdateUserRole(d, id, role)
              ELSE [db |-> d, err |-> ErrNone, user |-> NoUser]
        r2 == IF pw # <<>> THEN UpdateUserPassword(r1.db, id, pw)
              ELSE [db |-> r1.db, err |-> ErrNone, user |-> r1.user]
        r3 == IF hasIDs THEN SetUserProjects(r2.db, id, projectIDs)
              ELSE [db |-> r2.db, err |-> ErrNone]
    IN IF role = "" /\ pw = <<>> /\ ~hasIDs THEN Resp(d, StatusBadRequest, 0)
       ELSE IF r1.err \in {ErrInvalidRole, ErrLastAdmin} THEN Resp(r1.db, StatusBadRequest, 0)
       ELSE IF r1.err = ErrNoRows THEN Resp(r1.db, StatusNotFound, 0)
       ELSE IF r2.err = ErrNoRows THEN Resp(r2.db, StatusNotFound, 0)
       ELSE IF r2.err # ErrNone THEN Resp(r2.db, StatusBadRequest, 0)
       ELSE IF r3.err # ErrNone THEN Resp(r3.db, StatusBadRequest, 0)
       ELSE IF r2.user.ID = 0 /\ GetUserByID(r3.db, id).err = ErrNoRows
       THEN Resp(r3.db, StatusNotFound, 0)
       ELSE Resp(r3.db, StatusOK, id)

\* POST /api/auth/login and /register: the response also sets the cookie.
handleLogin(d, email, password, t) ==
    LET got == GetUserByEmail(d, email)
    IN IF email = <<>> \/ password = <<>>
       THEN [db |-> d, code |-> StatusBadRequest, cookie |-> NoCookie]
       ELSE IF got.err = ErrNoRows THEN [db |-> d, code |-> StatusUnauthorized, cookie |-> NoCookie]
       ELSE IF got.user.Password # bcrypt(password)
       THEN [db |-> d, code |-> StatusUnauthorized, cookie |-> NoCookie]
       ELSE IF got.user.Role = "blocked" THEN [db |-> d, code |-> StatusForbidden, cookie |-> NoCookie]
       ELSE [db |-> d, code |-> StatusOK, cookie |-> createToken(got.user, Secret, t)]

handleRegister(d, email, password, t) ==
    LET made == CreateUser(d, email, <<>>, password, "user")
    IN IF ~allowRegistration THEN [db |-> d, code |-> StatusForbidden, cookie |-> NoCookie]
       ELSE IF email = <<>> \/ password = <<>>
       THEN [db |-> d, code |-> StatusBadRequest, cookie |-> NoCookie]
       ELSE IF Len(password) < MinPasswordLen
       THEN [db |-> d, code |-> StatusBadRequest, cookie |-> NoCookie]
       ELSE IF made.err = ErrUnique THEN [db |-> d, code |-> StatusBadRequest, cookie |-> NoCookie]
       ELSE IF made.err # ErrNone
       THEN [db |-> d, code |-> StatusInternalServerError, cookie |-> NoCookie]
       ELSE [db |-> made.db, code |-> StatusOK, cookie |-> createToken(made.user, Secret, t)]

\* ---------------------------------------------------------------- tgbot
\* Bot.handleMessage, by command; code 0: the bot answered with an error text.
botNew(d, projectID, title, comment) ==
    LET made == InsertTask(d, title, comment, projectID)
    IN IF title = <<>> THEN Resp(d, 0, 0)
       ELSE IF ~ProjectExists(d, projectID) THEN Resp(d, 0, 0)
       ELSE IF made.err # ErrNone THEN Resp(made.db, 0, 0)
       ELSE Resp(made.db, StatusOK, made.task.ID)

botStatus(d, taskID, status) ==
    LET upd == SetTaskStatus(d, taskID, status)
    IN IF upd.err # ErrNone THEN Resp(upd.db, 0, 0) ELSE Resp(upd.db, StatusOK, taskID)

botProject(d, rest) ==
    LET made == CreateProject(d, TrimSpace(rest))
    IN IF rest = <<>> THEN Resp(d, 0, 0)
       ELSE IF made.err # ErrNone THEN Resp(made.db, 0, 0)
       ELSE Resp(made.db, StatusOK, made.project.ID)

\* ============================================================== inputs
\* What requests and bot messages carry. E-mail addresses are opaque values
\* (already trimmed and in lower case); <<>> is the empty string.
Titles == {<<" ">>, <<"t">>}
Comments == {<<>>, <<"c">>}
Names == {<<" ">>, <<"p">>, <<"q">>}
UserEmail(i) == <<"user@example.com", i>>
Emails == {<<>>, AdminEmail} \cup {UserEmail(i) : i \in 2..MaxUsers}
ShortPassword == <<"s", "h", "o", "r", "t">>
GoodPassword == <<"s", "e", "c", "r", "e", "t">>
Passwords == {ShortPassword, GoodPassword}
RoleInputs == {"", "admin", "user", "blocked", "root"}
StatusInputs == {"new", "in_progress", "done", "archived"}
ProjectIDInputs == 0..MaxProjects
TaskIDInputs == 1..MaxTasks
UserIDInputs == 1..MaxUsers
GrantInputs == {<<>>} \cup {<<p>> : p \in 1..MaxProjects} \cup {<<1, 2>>, <<2, 2>>}

\* The bodies of PATCH /api/users/{id}: one field, or several of them.
Body(role, password, hasIDs, projectIDs) ==
    [role |-> role, password |-> password, hasIDs |-> hasIDs, projectIDs |-> projectIDs]

RoleBodies == {Body(r, <<>>, FALSE, <<>>) : r \in RoleInputs}
PasswordBodies == {Body("", pw, FALSE, <<>>) : pw \in Passwords}
GrantBodies == {Body("", <<>>, TRUE, ids) : ids \in GrantInputs}
MixedBodies ==
    {Body(r, pw, TRUE, ids) : r \in {"user", "admin"}, pw \in Passwords,
                              ids \in {<<1>>, <<MaxProjects + 1>>}}

\* The cookie of caller u: none for 0, otherwise the one the login handler
\* sets when u signs in with the stored password.
Session(d, u, t) ==
    IF u \notin DOMAIN d.users THEN NoCookie
    ELSE handleLogin(d, d.users[u].email, d.users[u].password_hash[2], t).cookie

Callers(d) == {0} \cup DOMAIN d.users

Last(op, id, code) == [op |-> op, id |-> id, code |-> code]

\* A request that leaves the store as it was leaves the history as it was.
Note(op, id, r) == IF r.db = db THEN last ELSE Last(op, id, r.code)

\* The store after Open, and after one more user has registered.
AfterOpen == Open
AfterRegister == handleRegister(Open, UserEmail(2), GoodPassword, 0).db

\* ============================================================= requests
\* One action per route; g is what requireUser or requireAdmin made of the
\* request's cookie.
Owned(o, d) == [p \in DOMAIN o \cap DOMAIN d.projects |-> o[p]]

OwnerAfterPost(o, g, r) ==
    IF r.code = StatusOK /\ g.auth.isRestricted THEN (r.id :> g.auth.user.ID) @@ o ELSE o

PostProject(g, name) ==
    /\ db.seq.projects < MaxProjects
    /\ LET r == IF g.code # 0 THEN Resp(db, g.code, 0)
                ELSE createProjectHandler(db, g.auth, name)
       IN /\ db' = r.db
          /\ last' = Note("POST /api/projects", r.id, r)
          /\ owner' = OwnerAfterPost(owner, g, r)
    /\ UNCHANGED <<now, cookies, procs>>

DeleteProjectReq(g, id) ==
    /\ LET r == IF g.code # 0 THEN Resp(db, g.code, 0)
                ELSE deleteProjectHandler(db, g.auth, id)
       IN /\ db' = r.db
          /\ owner' = Owned(owner, r.db)
          /\ last' = Note("DELETE /api/projects/", id, r)
    /\ UNCHANGED <<now, cookies, procs>>

PostTask(g, title, comment, projectID) ==
    /\ db.seq.tasks < MaxTasks
    /\ LET r == IF g.code # 0 THEN Resp(db, g.code, 0)
                ELSE createTask(db, g.auth, title, comment, projectID)
       IN /\ db' = r.db
          /\ last' = Note("POST /api/tasks", projectID, r)
    /\ UNCHANGED <<now, cookies, procs, owner>>

PatchTaskStatus(g, id, status) ==
    /\ LET r == IF g.code # 0 THEN Resp(db, g.code, 0)
                ELSE updateStatus(db, g.auth, id, status)
       IN /\ db' = r.db
          /\ last' = Note("PATCH /api/tasks/status", id, r)
    /\ UNCHANGED <<now, cookies, procs, owner>>

PatchTask(g, id, comment) ==
    /\ LET r == IF g.code # 0 THEN Resp(db, g.code, 0)
                ELSE updateComment(db, g.auth, id, comment)
       IN /\ db' = r.db
          /\ last' = Note("PATCH /api/tasks/", id, r)
    /\ UNCHANGED <<now, cookies, procs, owner>>

DeleteTaskReq(g, id) ==
    /\ LET r == IF g.code # 0 THEN Resp(db, g.code, 0)
                ELSE deleteTaskHandler(db, g.auth, id)
       IN /\ db' = r.db
          /\ last' = Note("DELETE /api/tasks/", id, r)
    /\ UNCHANGED <<now, cookies, procs, owner>>

PostUser(g, email, password, role) ==
    /\ db.seq.users < MaxUsers
    /\ LET r == IF g.code # 0 THEN Resp(db, g.code, 0)
                ELSE createUserHandler(db, email, password, role)
       IN /\ db' = r.db
          /\ last' = Note("POST /api/users", r.id, r)
    /\ UNCHANGED <<now, cookies, procs, owner>>

\* A PATCH that replaces the target's grants ends what the target was granted
\* for creating projects: from then on it holds what the admin gave.
PatchUser(g, id, b) ==
    /\ LET r == IF g.code # 0 THEN Resp(db, g.code, 0)
                ELSE handleUserActions(db, id, b.role, b.password, b.hasIDs, b.projectIDs)
       IN /\ db' = r.db
          /\ owner' = IF g.code = 0 /\ b.hasIDs /\ r.code = StatusOK
                      THEN [p \in {q \in DOMAIN owner : owner[q] # id} |-> owner[p]]
                      ELSE owner
          /\ last' = Note("PATCH /api/users/", id, r)
    /\ UNCHANGED <<now, cookies, procs>>

Register(email, password) ==
    /\ db.seq.users < MaxUsers
    /\ LET r == handleRegister(db, email, password, now)
       IN /\ db' = r.db
          /\ last' = Note("POST /api/auth/register", 0, r)
    /\ UNCHANGED <<now, cookies, procs, owner>>

BotNew(projectID, title, comment) ==
    /\ db.seq.tasks < MaxTasks
    /\ LET r == botNew(db, projectID, title, comment)
       IN /\ db' = r.db
          /\ last' = Note("/new", projectID, r)
    /\ UNCHANGED <<now, cookies, procs, owner>>

BotStatus(id, status) ==
    /\ LET r == botStatus(db, id, status)
       IN /\ db' = r.db
          /\ last' = Note("/status", id, r)
    /\ UNCHANGED <<now, cookies, procs, owner>>

BotProject(name) ==
    /\ db.seq.projects < MaxProjects
    /\ LET r == botProject(db, name)
       IN /\ db' = r.db
          /\ last' = Note("/project", r.id, r)
    /\ UNCHANGED <<now, cookies, procs, owner>>

\* ========================================================== SpecUsers
\* User management: registration and the admin's /api/users routes.
InitUsers ==
    /\ db = AfterOpen
    /\ now = 0
    /\ cookies = {}
    /\ procs = <<>>
    /\ owner = <<>>
    /\ last = Last("Open", 0, 0)

NextUsers ==
    \/ \E u \in Callers(db) :
          LET g == requireAdmin(db, Session(db, u, now), now)
          IN \/ \E e \in Emails, pw \in Passwords, r \in RoleInputs : PostUser(g, e, pw, r)
             \/ \E id \in UserIDInputs, b \in RoleBodies \cup PasswordBodies \cup GrantBodies \cup MixedBodies :
                   PatchUser(g, id, b)
    \/ \E e \in Emails, pw \in Passwords : Register(e, pw)
    \/ BotProject(<<"p">>)

SpecUsers == InitUsers /\ [][NextUsers]_vars

\* ======================================================= SpecProjects
\* Projects and grants: an admin and a restricted user share the store.
InitProjects ==
    /\ db = AfterRegister
    /\ now = 0
    /\ cookies = {}
    /\ procs = <<>>
    /\ owner = <<>>
    /\ last = Last("Open", 0, 0)

NextProjects ==
    \/ \E u \in DOMAIN db.users :
          LET g == requireUser(db, Session(db, u, now), now)
          IN \/ \E name \in Names : PostProject(g, name)
             \/ \E id \in ProjectIDInputs : DeleteProjectReq(g, id)
    \/ \E u \in DOMAIN db.users :
          LET g == requireAdmin(db, Session(db, u, now), now)
          IN \E id \in DOMAIN db.users, b \in GrantBodies : PatchUser(g, id, b)
    \/ \E name \in Names \cup {<<>>} : BotProject(name)

SpecProjects == InitProjects /\ [][NextProjects]_vars

\* ========================================================== SpecTasks
\* Tasks under access control: an admin and a restricted user, over the
\* default project and one project the admin has made.
AfterProject ==
    createProjectHandler(AfterRegister,
                         requireUser(AfterRegister, Session(AfterRegister, 1, 0), 0).auth,
                         <<"p">>).db

TaskGrantBodies == {Body("", <<>>, TRUE, ids) : ids \in {<<>>, <<1>>, <<1, 2>>}}

Restricted(d) == {u \in DOMAIN d.users : d.users[u].role = "user"}

InitTasks ==
    /\ db = AfterProject
    /\ now = 0
    /\ cookies = {}
    /\ procs = <<>>
    /\ owner = <<>>
    /\ last = Last("Open", 0, 0)

NextTasks ==
    \/ \E u \in DOMAIN db.users :
          LET g == requireUser(db, Session(db, u, now), now)
          IN \/ \E id \in ProjectIDInputs : DeleteProjectReq(g, id)
             \/ \E title \in Titles, comment \in Comments, p \in ProjectIDInputs :
                   PostTask(g, title, comment, p)
             \/ \E id \in TaskIDInputs, st \in StatusInputs : PatchTaskStatus(g, id, st)
             \/ \E id \in TaskIDInputs, c \in Comments : PatchTask(g, id, c)
             \/ \E id \in TaskIDInputs : DeleteTaskReq(g, id)
    \/ \E u \in DOMAIN db.users :
          LET g == requireAdmin(db, Session(db, u, now), now)
          IN \E id \in Restricted(db), b \in TaskGrantBodies : PatchUser(g, id, b)

SpecTasks == InitTasks /\ [][NextTasks]_vars

\* =========================================================== SpecRole
\* Calls of UpdateUserRole that run at the same time, as the HTTP server's
\* goroutines run them: each call executes its statements one by one on the
\* shared database, and statements of other calls may come in between.
NProcs == 2

Idle == [pc |-> "idle"]

AfterSecondAdmin == createUserHandler(Open, UserEmail(2), GoodPassword, "admin").db

InitRole ==
    /\ db = AfterSecondAdmin
    /\ now = 0
    /\ cookies = {}
    /\ procs = [p \in 1..NProcs |-> Idle]
    /\ owner = <<>>
    /\ last = Last("Open", 0, 0)

\* The call starts: the role is checked against allowedRoles.
RoleCall(p, id, role) ==
    /\ procs[p].pc = "idle"
    /\ procs' = [procs EXCEPT ![p] =
                    IF role \notin allowedRoles THEN Idle
                    ELSE [pc |-> "select", id |-> id, role |-> role]]
    /\ UNCHANGED <<db, now, cookies, owner, last>>

\* SELECT role FROM users WHERE id = ?
RoleSelect(p) ==
    /\ procs[p].pc = "select"
    /\ LET r == SelectRole(db, procs[p].id)
       IN procs' = [procs EXCEPT ![p] =
                       IF r.err # ErrNone THEN Idle
                       ELSE IF r.role = "admin" /\ procs[p].role # "admin"
                       THEN [pc |-> "count", id |-> @.id, role |-> @.role]
                       ELSE [pc |-> "update", id |-> @.id, role |-> @.role]]
    /\ UNCHANGED <<db, now, cookies, owner, last>>

\* SELECT COUNT(*) FROM users WHERE role = 'admin', for a call that found
\* an admin and is to take the role away.
RoleCount(p) ==
    /\ procs[p].pc = "count"
    /\ procs' = [procs EXCEPT ![p] =
                    IF LastAdminCheck("admin", @.role, countAdmins(db)) # ErrNone THEN Idle
                    ELSE [pc |-> "update", id |-> @.id, role |-> @.role]]
    /\ UNCHANGED <<db, now, cookies, owner, last>>

\* UPDATE users SET role = ? WHERE id = ?, and the call returns.
RoleUpdate(p) ==
    /\ procs[p].pc = "update"
    /\ LET r == UpdateRoleExec(db, procs[p].id, procs[p].role)
       IN /\ db' = r.db
          /\ last' = IF r.db = db THEN last ELSE Last("UpdateUserRole", procs[p].id, r.err)
    /\ procs' = [procs EXCEPT ![p] = Idle]
    /\ UNCHANGED <<now, cookies, owner>>

NextRole ==
    \E p \in 1..NProcs :
        \/ \E id \in UserIDInputs \cup {MaxUsers + 1}, role \in RoleInputs : RoleCall(p, id, role)
        \/ RoleSelect(p)
        \/ RoleCount(p)
        \/ RoleUpdate(p)

SpecRole == InitRole /\ [][NextRole]_vars

\* C1 (as stated): in every state the running system reaches, calls of
\* UpdateUserRole on different admins that overlap included, at least one
\* user has the role admin.
C1_AtLeastOneAdmin == countAdmins(db) >= 1

\* ======================================================= SpecUsername
\* SetUsernameOnce, called on its own and by callers that run at the same
\* time: a call's statements execute one by one on the shared database.
Chars(n, c) == [i \in 1..n |-> c]

UsernameInputs ==
    {<<>>, <<" ">>, <<"a", "b">>, <<"a", "l", "i">>, <<" ", "A", "l", "i">>,
     <<"b", "o", "b">>, <<"a", "@", "b">>, Chars(MaxUsernameLen + 1, "a")}

InitUsername ==
    /\ db = AfterRegister
    /\ now = 0
    /\ cookies = {}
    /\ procs = [p \in 1..NProcs |-> Idle]
    /\ owner = <<>>
    /\ last = Last("Open", 0, 0)

\* A call from its first statement to its return, nothing in between.
UsernameOnce(id, username) ==
    /\ \A p \in DOMAIN procs : procs[p].pc = "idle"
    /\ LET r == SetUsernameOnce(db, id, username)
       IN /\ db' = r.db
          /\ owner' = IF r.err = ErrNone THEN (id :> 0) @@ owner ELSE owner
          /\ last' = IF r.db = db THEN last ELSE Last("SetUsernameOnce", id, r.err)
    /\ UNCHANGED <<now, cookies, procs>>

\* The call starts: the name is trimmed, put in lower case and validated.
\* unset: the user had no username when the call started.
UsernameCall(p, id, username) ==
    /\ procs[p].pc = "idle"
    /\ LET name == NormalizeUsername(username)
       IN procs' = [procs EXCEPT ![p] =
                       IF CheckUsername(name) # ErrNone THEN Idle
                       ELSE [pc |-> "update", id |-> id, name |-> name,
                             unset |-> id \in DOMAIN db.users /\ db.users[id].username = <<>>,
                             err |-> ErrNone]]
    /\ UNCHANGED <<db, now, cookies, owner, last>>

\* UPDATE users SET username = ? WHERE id = ? AND (username IS NULL OR username = '')
UsernameUpdate(p) ==
    /\ procs[p].pc = "update"
    /\ LET r == UpdateUsernameIfEmpty(db, procs[p].id, procs[p].name)
       IN /\ db' = r.db
          /\ owner' = IF r.affected = 1 THEN (procs[p].id :> p) @@ owner ELSE owner
          /\ procs' = [procs EXCEPT ![p] =
                          IF r.err # ErrNone THEN [@ EXCEPT !.pc = "done", !.err = r.err]
                          ELSE IF r.affected = 0 THEN [@ EXCEPT !.pc = "select"]
                          ELSE [@ EXCEPT !.pc = "get"]]
    /\ UNCHANGED <<now, cookies, last>>

\* No row was updated: SELECT username FROM users WHERE id = ?
UsernameSelect(p) ==
    /\ procs[p].pc = "select"
    /\ procs' = [procs EXCEPT ![p] =
                    [@ EXCEPT !.pc = "done", !.err = UsernameNotUpdated(db, procs[p].id)]]
    /\ UNCHANGED <<db, now, cookies, owner, last>>

\* A row was updated: GetUserByID.
UsernameGet(p) ==
    /\ procs[p].pc = "get"
    /\ procs' = [procs EXCEPT ![p] =
                    [@ EXCEPT !.pc = "done", !.err = GetUserByID(db, procs[p].id).err]]
    /\ UNCHANGED <<db, now, cookies, owner, last>>

\* The caller has the result.
UsernameReturn(p) ==
    /\ procs[p].pc = "done"
    /\ procs' = [procs EXCEPT ![p] = Idle]
    /\ UNCHANGED <<db, now, cookies, owner, last>>

NextUsername ==
    \/ \E id \in UserIDInputs \cup {MaxUsers + 1}, x \in UsernameInputs : UsernameOnce(id, x)
    \/ \E p \in 1..NProcs :
          \/ \E id \in UserIDInputs, x \in UsernameInputs : UsernameCall(p, id, x)
          \/ UsernameUpdate(p)
          \/ UsernameSelect(p)
          \/ UsernameGet(p)
          \/ UsernameReturn(p)

SpecUsername == InitUsername /\ [][NextUsername]_vars

\* =========================================================== SpecRace
\* Store calls that run at the same time: InsertTask looks the project up
\* and inserts the row in two statements; DeleteProject is one transaction.
InitRace ==
    /\ db = AfterProject
    /\ now = 0
    /\ cookies = {}
    /\ procs = [p \in 1..NProcs |-> Idle]
    /\ owner = <<>>
    /\ last = Last("Open", 0, 0)

\* InsertTask starts: ProjectExists.
InsertTaskCall(p, title, description, projectID) ==
    /\ procs[p].pc = "idle"
    /\ db.seq.tasks + Cardinality({q \in DOMAIN procs : procs[q].pc = "insert"}) < MaxTasks
    /\ procs' = [procs EXCEPT ![p] =
                    IF ~ProjectExists(db, projectID) THEN Idle
                    ELSE [pc |-> "insert", title |-> title, description |-> description,
                          projectID |-> projectID]]
    /\ UNCHANGED <<db, now, cookies, owner, last>>

\* The INSERT and the SELECT of the new row; the call returns.
InsertTaskRun(p) ==
    /\ procs[p].pc = "insert"
    /\ LET r == InsertTaskExec(db, procs[p].title, procs[p].description, procs[p].projectID)
       IN /\ db' = r.db
          /\ last' = Last("InsertTask", r.task.ID, r.err)
    /\ procs' = [procs EXCEPT ![p] = Idle]
    /\ UNCHANGED <<now, cookies, owner>>

DeleteProjectRun(id) ==
    /\ LET r == DeleteProject(db, id)
       IN /\ db' = r.db
          /\ last' = Last("DeleteProject", id, r.err)
    /\ UNCHANGED <<now, cookies, procs, owner>>

NextRace ==
    \/ \E p \in 1..NProcs :
          \/ \E title \in {<<"t">>}, c \in Comments, id \in ProjectIDInputs :
                InsertTaskCall(p, title, c, id)
          \/ InsertTaskRun(p)
    \/ \E id \in ProjectIDInputs : DeleteProjectRun(id)

SpecRace == InitRace /\ [][NextRace]_vars

\* =========================================================== SpecAuth
\* Sessions over time: users sign in and keep the cookie, time passes, and
\* admins change roles; any kept cookie may come with a request. Time is
\* counted in days.
MaxCookies == 2
MaxTime == 40
TickStep == 20

AfterThirdUser ==
    createUserHandler(AfterSecondAdmin, UserEmail(3), GoodPassword, "admin").db

InitAuth ==
    /\ db = AfterThirdUser
    /\ now = 0
    /\ cookies = {}
    /\ procs = <<>>
    /\ owner = <<>>
    /\ last = Last("Open", 0, 0)

\* POST /api/auth/login; the browser keeps the cookie of a 200.
Login(email, password) ==
    /\ Cardinality(cookies) < MaxCookies
    /\ LET r == handleLogin(db, email, password, now)
       IN cookies' = IF r.code = StatusOK THEN cookies \cup {r.cookie} ELSE cookies
    /\ UNCHANGED <<db, now, procs, owner, last>>

\* POST /api/auth/logout: the cookie is cleared in the browser; the server
\* keeps no session, so nothing else changes.
Logout(c) ==
    /\ cookies' = cookies \ {c}
    /\ UNCHANGED <<db, now, procs, owner, last>>

Tick ==
    /\ now + TickStep <= MaxTime
    /\ now' = now + TickStep
    /\ UNCHANGED <<db, cookies, procs, owner, last>>

NextAuth ==
    \/ \E u \in DOMAIN db.users, pw \in {GoodPassword, AdminPassword} :
          Login(db.users[u].email, pw)
    \/ \E c \in cookies : Logout(c)
    \/ Tick
    \/ \E c \in cookies \cup {NoCookie} :
          LET g == requireAdmin(db, c, now)
          IN \E id \in DOMAIN db.users, r \in allowedRoles :
                PatchUser(g, id, Body(r, <<>>, FALSE, <<>>))

SpecAuth == InitAuth /\ [][NextAuth]_vars

\* ========================================================== SpecToken
\* createToken and parseToken on their own: a user id, a role and a secret
\* are drawn, the token is made at some time, and time passes a day at a
\* time until after the token's expiry.
MaxIssueTime == 1
MaxTokenTime == 32

TokenIDs == {1, 12}
Secrets == {Secret, <<7>>}

InitToken ==
    /\ db = AfterOpen
    /\ now = 0
    /\ cookies = {}
    /\ procs \in [id : TokenIDs, role : allowedRoles, secret : Secrets]
    /\ owner = <<>>
    /\ last = Last("Open", 0, 0)

IssueToken ==
    /\ cookies = {}
    /\ now <= MaxIssueTime
    /\ cookies' = {createToken([NoUser EXCEPT !.ID = procs.id, !.Role = procs.role],
                               procs.secret, now)}
    /\ last' = Last("createToken", procs.id, now)
    /\ UNCHANGED <<db, now, procs, owner>>

TokenTick ==
    /\ now < MaxTokenTime
    /\ now' = now + 1
    /\ UNCHANGED <<db, cookies, procs, owner, last>>

NextToken == IssueToken \/ TokenTick

SpecToken == InitToken /\ [][NextToken]_vars

\* ========================================================== SpecStore
\* The store's task and comment methods called one after another, over the
\* default project and one more.
InitStore ==
    /\ db = AfterProject
    /\ now = 0
    /\ cookies = {}
    /\ procs = <<>>
    /\ owner = <<>>
    /\ last = Last("Open", 0, 0)

InsertTaskOnce(title, description, projectID) ==
    /\ db.seq.tasks < MaxTasks
    /\ LET r == InsertTask(db, title, description, projectID)
       IN /\ db' = r.db
          /\ last' = Last("InsertTask", r.task.ID, r.err)
    /\ UNCHANGED <<now, cookies, procs, owner>>

SetTaskStatusOnce(id, status) ==
    /\ LET r == SetTaskStatus(db, id, status)
       IN /\ db' = r.db
          /\ last' = Last("SetTaskStatus", id, r.err)
    /\ UNCHANGED <<now, cookies, procs, owner>>

DeleteTaskOnce(id) ==
    /\ LET r == DeleteTask(db, id)
       IN /\ db' = r.db
          /\ last' = Last("DeleteTask", id, r.err)
    /\ UNCHANGED <<now, cookies, procs, owner>>

AddTaskCommentOnce(taskID, body, authorID) ==
    /\ db.seq.task_comments < MaxComments
    /\ LET r == AddTaskComment(db, taskID, body, authorID)
       IN /\ db' = r.db
          /\ last' = Last("AddTaskComment", r.comment.ID, r.err)
    /\ UNCHANGED <<now, cookies, procs, owner>>

DeleteTaskCommentOnce(commentID) ==
    /\ LET r == DeleteTaskComment(db, commentID)
       IN /\ db' = r.db
          /\ last' = Last("DeleteTaskComment", commentID, r.err)
    /\ UNCHANGED <<now, cookies, procs, owner>>

NextStore ==
    \/ \E id \in ProjectIDInputs : InsertTaskOnce(<<"t">>, <<>>, id)
    \/ \E id \in TaskIDInputs, st \in StatusInputs : SetTaskStatusOnce(id, st)
    \/ \E id \in TaskIDInputs : DeleteTaskOnce(id)
    \/ \E id \in TaskIDInputs : AddTaskCommentOnce(id, <<"c">>, 1)
    \/ \E id \in 1..MaxComments : DeleteTaskCommentOnce(id)
    \/ \E id \in ProjectIDInputs : DeleteProjectRun(id)

SpecStore == InitStore /\ [][NextStore]_vars

\* ========================================================= SpecUpdate
\* SetTaskStatus and SetTaskDescription called at the same time on the
\* tasks of the store: each call is an UPDATE, then a SELECT of the row.
\* owner keeps, per task and column, the value of the UPDATE that ran last.
AfterTask == InsertTask(AfterProject, <<"t">>, <<>>, DefaultProjectID).db

UpdateInputs ==
    {[column |-> "status", value |-> s] : s \in StatusInputs}
    \cup {[column |-> "description", value |-> c] : c \in {<<"c">>, <<"d">>}}

Returned(call, err) == [pc |-> "returned", call |-> call, err |-> err]

InitUpdate ==
    /\ db = AfterTask
    /\ now = 0
    /\ cookies = {}
    /\ procs = [p \in 1..NProcs |-> Idle]
    /\ owner = <<>>
    /\ last = Last("Open", 0, 0)

\* The call up to and with its UPDATE.
UpdateCall(p, id, in) ==
    /\ procs[p].pc \in {"idle", "returned"}
    /\ LET call == [id |-> id, column |-> in.column, value |-> in.value]
           r == UpdateTaskExec(db, id, in.column, in.value)
       IN IF in.column = "status" /\ in.value \notin allowedStatuses
          THEN /\ procs' = [procs EXCEPT ![p] = Returned(call, ErrInvalidStatus)]
               /\ UNCHANGED <<db, owner>>
          ELSE IF r.affected = 0
          THEN /\ procs' = [procs EXCEPT ![p] = Returned(call, ErrNoRows)]
               /\ UNCHANGED <<db, owner>>
          ELSE /\ db' = r.db
               /\ procs' = [procs EXCEPT ![p] = [pc |-> "select", call |-> call]]
               /\ owner' = (<<id, in.column>> :> in.value) @@ owner
    /\ UNCHANGED <<now, cookies, last>>

\* The SELECT of the row, and the return.
UpdateSelect(p) ==
    /\ procs[p].pc = "select"
    /\ procs' = [procs EXCEPT ![p] = Returned(procs[p].call, GetTask(db, procs[p].call.id).err)]
    /\ UNCHANGED <<db, now, cookies, owner, last>>

NextUpdate ==
    \E p \in 1..NProcs :
        \/ \E id \in TaskIDInputs, in \in UpdateInputs : UpdateCall(p, id, in)
        \/ UpdateSelect(p)

SpecUpdate == InitUpdate /\ [][NextUpdate]_vars

\* ========================================================== SpecGrant
\* POST /api/projects by a restricted user, statement by statement, next to
\* other such requests and to an admin's PATCH of the user's projectIds.
\* owner keeps who made a project, until an admin's PATCH takes the grant.
InitGrant ==
    /\ db = AfterRegister
    /\ now = 0
    /\ cookies = {}
    /\ procs = [p \in 1..NProcs |-> Idle]
    /\ owner = <<>>
    /\ last = Last("Open", 0, 0)

\* createProjectHandler up to and with CreateProject.
GrantCreate(p, u, name) ==
    /\ procs[p].pc = "idle"
    /\ db.seq.projects < MaxProjects
    /\ LET made == CreateProject(db, TrimSpace(name))
       IN IF TrimSpace(name) = <<>> \/ made.err # ErrNone
          THEN UNCHANGED <<db, procs>>
          ELSE /\ db' = made.db
               /\ procs' = [procs EXCEPT ![p] = [pc |-> "read", user |-> u,
                                                 project |-> made.project.ID]]
    /\ UNCHANGED <<now, cookies, owner, last>>

\* GetUserProjects of the caller.
GrantRead(p) ==
    /\ procs[p].pc = "read"
    /\ procs' = [procs EXCEPT ![p] = [pc |-> "write", user |-> procs[p].user,
                                      project |-> procs[p].project,
                                      current |-> GetUserProjects(db, procs[p].user)]]
    /\ UNCHANGED <<db, now, cookies, owner, last>>

\* SetUserProjects with the project appended, and the 200.
GrantWrite(p) ==
    /\ procs[p].pc = "write"
    /\ LET r == SetUserProjects(db, procs[p].user,
                                Append(procs[p].current, procs[p].project))
       IN /\ db' = r.db
          /\ last' = Last("POST /api/projects", procs[p].project, StatusOK)
    /\ owner' = (procs[p].project :> procs[p].user) @@ owner
    /\ procs' = [procs EXCEPT ![p] = Idle]
    /\ UNCHANGED <<now, cookies>>

\* PATCH /api/users/{u} with projectIds, sent by an admin.
GrantReplace(u, ids) ==
    /\ LET r == handleUserActions(db, u, "", <<>>, TRUE, ids)
       IN /\ db' = r.db
          /\ owner' = IF r.code = StatusOK
                      THEN [p \in {q \in DOMAIN owner : owner[q] # u} |-> owner[p]]
                      ELSE owner
          /\ last' = Note("PATCH /api/users/", u, r)
    /\ UNCHANGED <<now, cookies, procs>>

NextGrant ==
    \/ \E p \in 1..NProcs :
          \/ \E u \in Restricted(db), name \in Names : GrantCreate(p, u, name)
          \/ GrantRead(p)
          \/ GrantWrite(p)
    \/ \E u \in Restricted(db), ids \in {<<>>, <<DefaultProjectID>>} : GrantReplace(u, ids)

SpecGrant == InitGrant /\ [][NextGrant]_vars

\* ========================================================== properties
\* C2: UpdateUserRole(A, r) with r user or blocked, run on its own, fails
\* with the last-admin error and changes nothing when A is the only admin;
\* when another admin exists it succeeds and A has role r, the other users
\* keeping their roles.
C2_LastAdminSequential ==
    \A A \in DOMAIN db.users, r \in {"user", "blocked"} :
        db.users[A].role = "admin" =>
            LET res == UpdateUserRole(db, A, r)
            IN IF countAdmins(db) = 1
               THEN res.err = ErrLastAdmin /\ res.db = db
               ELSE /\ res.err = ErrNone
                    /\ res.db = [db EXCEPT !.users[A].role = r]
                    /\ res.user = UserOf(res.db, A)

\* The first admin was the only admin, a second one was made, and the PATCH
\* that took the role from the first succeeded: the second is now alone.
C2_Witness ==
    /\ last = Last("PATCH /api/users/", 1, StatusOK)
    /\ db.users[1].role \in {"user", "blocked"}
    /\ countAdmins(db) = 1
    /\ UpdateUserRole(db, 2, "user").err = ErrLastAdmin

\* C3 (as stated): once a user has a username, SetUsernameOnce for that
\* user with any value whatsoever fails with ErrUsernameSet and leaves the
\* stored username as it is.
C3_AnyValueAlreadySet ==
    \A u \in DOMAIN db.users, x \in UsernameInputs :
        db.users[u].username # <<>> =>
            LET r == SetUsernameOnce(db, u, x)
            IN r.err = ErrUsernameSet /\ r.db = db

\* C3 (amended): once a user has a username, SetUsernameOnce for that user
\* fails for every value and leaves the stored username as it is; the error
\* is ErrUsernameSet when the value, trimmed and in lower case, is a valid
\* username, and the validation error when it is not.
C3_SetOnce ==
    \A u \in DOMAIN db.users, x \in UsernameInputs :
        db.users[u].username # <<>> =>
            LET r == SetUsernameOnce(db, u, x)
                name == TrimSpace(ToLower(x))
            IN /\ r.err # ErrNone
               /\ r.db = db
               /\ name # <<>> /\ validateUsername(name) = ErrNone => r.err = ErrUsernameSet
               /\ name = <<>> => r.err = ErrUsernameRequired
               /\ name # <<>> /\ validateUsername(name) # ErrNone => r.err = validateUsername(name)

\* A call has set a user's username and has not returned yet; a call for the
\* same user that started afterwards has ended with ErrUsernameSet, and so
\* would a call with another valid name.
C3_Witness ==
    \E p, q \in DOMAIN procs :
        /\ procs[p].pc = "done" /\ procs[p].err = ErrNone
        /\ procs[q].pc = "done" /\ procs[q].err = ErrUsernameSet
        /\ procs[q].id = procs[p].id /\ ~procs[q].unset
        /\ procs[q].name # procs[p].name
        /\ db.users[procs[p].id].username = procs[p].name
        /\ SetUsernameOnce(db, procs[p].id, <<"a", "@", "b">>).err
              = "username cannot contain @"

\* Two calls for one user, both started while the user had no username and
\* both finished, no third call having set the username meanwhile.
Overlapping(p, q) ==
    /\ p # q
    /\ procs[p].pc = "done" /\ procs[q].pc = "done"
    /\ procs[p].id = procs[q].id
    /\ procs[p].unset /\ procs[q].unset
    /\ procs[p].id \in DOMAIN owner => owner[procs[p].id] \in {p, q}

OneWins(p, q) ==
    /\ procs[p].err = ErrNone
    /\ procs[q].err = ErrUsernameSet
    /\ db.users[procs[p].id].username = procs[p].name

Taken(id, name) == \E v \in DOMAIN db.users : v # id /\ db.users[v].username = name

C5_CreatorSeesProject ==
    \A p \in DOMAIN owner :
        LET g == requireUser(db, Session(db, owner[p], now), now)
        IN /\ <<owner[p], p>> \in db.user_projects
           /\ p \in listProjects(db, g.auth)

\* C6: a DeleteProject(id) that fails leaves the projects and the tasks as
\* they were, the tasks whose project_id is id included: the transaction
\* that deleted them is rolled back.
C6_FailedDeleteChangesNothing ==
    \A id \in ProjectIDInputs :
        LET r == DeleteProject(db, id)
        IN r.err # ErrNone =>
              /\ r.err = ErrNoRows
              /\ id \notin DOMAIN db.projects
              /\ r.db.projects = db.projects
              /\ r.db.tasks = db.tasks

\* DeleteProject has just failed for a project that is gone while a task
\* with that project_id is stored (its InsertTask overlapped the delete
\* that removed the project); the task is still there.
C6_Witness ==
    /\ last.op = "DeleteProject" /\ last.code = ErrNoRows
    /\ \E t \in DOMAIN db.tasks : db.tasks[t].project_id = last.id

\* C7: after a successful DeleteProject(P) the project P is gone, no task
\* has project_id P, GetTask of each task P had returns ErrNoRows, and the
\* other projects and their tasks are as before.
C7_DeleteProjectRemovesTasks ==
    \A P \in ProjectIDInputs :
        LET r == DeleteProject(db, P)
        IN r.err = ErrNone =>
              /\ ~ProjectExists(r.db, P)
              /\ \A q \in DOMAIN db.projects \ {P} : GetProject(r.db, q) = GetProject(db, q)
              /\ \A t \in DOMAIN r.db.tasks : r.db.tasks[t].project_id # P
              /\ \A t \in DOMAIN db.tasks :
                    IF db.tasks[t].project_id = P
                    THEN GetTask(r.db, t).err = ErrNoRows
                    ELSE GetTask(r.db, t) = GetTask(db, t)

\* DeleteProject has just succeeded; of the tasks made, one is gone with its
\* project and one, of a project that exists, is still there. (In SpecRace
\* only DeleteProject removes tasks, and a project's id is never used again.)
C7_Witness ==
    /\ last.op = "DeleteProject" /\ last.code = ErrNone
    /\ ~ProjectExists(db, last.id)
    /\ \E t, s \in 1..db.seq.tasks :
          /\ GetTask(db, t).err = ErrNoRows
          /\ GetTask(db, s).err = ErrNone
          /\ ProjectExists(db, GetTask(db, s).task.ProjectID)

\* What a kept cookie says, when it is a token that parses and has not
\* expired.
Claims(c) == parseToken(c, Secret, now)

\* C8: for every cookie issued earlier and not yet expired, the answer
\* depends on the role stored now, not on the role in the token: a blocked
\* user is unauthenticated (401) on every route, a user that is no admin is
\* refused (403) by the admin routes whatever role the token carries, and an
\* admin passes them.
C8_StoredRoleDecides ==
    \A c \in cookies :
        Claims(c).err = ErrNone =>
            LET u == Claims(c).claims.UserID
                role == db.users[u].role
                ru == requireUser(db, c, now)
                ra == requireAdmin(db, c, now)
            IN /\ role = "blocked" =>
                     ru.code = StatusUnauthorized /\ ra.code = StatusUnauthorized
               /\ role = "user" =>
                     /\ ra.code = StatusForbidden
                     /\ ru.code = 0 /\ ru.auth.user.Role = "user" /\ ru.auth.isRestricted
               /\ role = "admin" =>
                     /\ ra.code = 0 /\ ra.auth.user.Role = "admin"
                     /\ ru.code = 0 /\ ~ru.auth.isRestricted

\* Time has passed since two admins signed in; one has been blocked and the
\* other made a user since, and both cookies are still unexpired tokens
\* with the role admin in them.
C8_Witness ==
    /\ now > 0
    /\ last.op = "PATCH /api/users/" /\ last.code = StatusOK
    /\ \E c, e \in cookies :
          /\ Claims(c).err = ErrNone /\ Claims(e).err = ErrNone
          /\ Claims(c).claims.Role = RoleBytes("admin")
          /\ Claims(e).claims.Role = RoleBytes("admin")
          /\ Claims(c).claims.Exp < now + authExpiry
          /\ Claims(e).claims.Exp < now + authExpiry
          /\ db.users[Claims(c).claims.UserID].role = "blocked"
          /\ db.users[Claims(e).claims.UserID].role = "user"
          /\ requireUser(db, c, now).code = StatusUnauthorized
          /\ requireAdmin(db, e, now).code = StatusForbidden

\* The two segments of a token, and a token with byte c at place i of its
\* signature segment.
PayloadSegment(tok) == Split(tok, Dot)[1]
SignatureSegment(tok) == Split(tok, Dot)[2]
WithSignature(tok, sig) == PayloadSegment(tok) \o <<Dot>> \o sig

\* Other bytes for a place of the signature: two of the alphabet, one not.
OtherBytes(c) == {B64Char((B64Index(c) + 1) % 64), B64Char((B64Index(c) + 32) % 64), 61}

\* C9: the token createToken made is accepted by parseToken with the same
\* secret at every time up to its expiry, with the user id and role it was
\* made for; it is rejected after its expiry, with any character of its
\* signature segment changed, with another secret, and with the signature
\* of another payload.
C9_TokenRoundTrip ==
    \A tok \in cookies :
        LET exp == last.code + authExpiry
            parsed == parseToken(tok, procs.secret, now)
            sig == SignatureSegment(tok)
        IN /\ now <= exp =>
                 /\ parsed.err = ErrNone
                 /\ parsed.claims = [UserID |-> procs.id, Role |-> RoleBytes(procs.role),
                                     Exp |-> exp]
           /\ now > exp => parsed.err = "token expired"
           /\ \A i \in 1..Len(sig) : \A c \in OtherBytes(sig[i]) :
                 parseToken(WithSignature(tok, [sig EXCEPT ![i] = c]), procs.secret, now).err
                    = "invalid signature"
           /\ \A s \in Secrets \ {procs.secret} :
                 parseToken(tok, s, now).err = "invalid signature"
           /\ \A id \in TokenIDs, role \in allowedRoles :
                 LET other == createToken([NoUser EXCEPT !.ID = id, !.Role = role],
                                          procs.secret, last.code)
                 IN other # tok =>
                       parseToken(WithSignature(tok, SignatureSegment(other)),
                                  procs.secret, now).err = "invalid signature"

\* A token for a two-digit user id is at the last moment it is accepted.
C9_Witness ==
    /\ procs.id = 12
    /\ \E tok \in cookies :
          /\ now = last.code + authExpiry
          /\ parseToken(tok, procs.secret, now).err = ErrNone
          /\ parseToken(tok, procs.secret, now + 1).err = "token expired"

\* The projects user u is granted, and what requireUser hands the handler
\* when u's request arrives.
Grants(u) == {p \in ProjectIDInputs : <<u, p>> \in db.user_projects}
AuthOf(u) == requireUser(db, Session(db, u, now), now).auth
Refused == Resp(db, StatusForbidden, 0)

\* C10: for a restricted user, creating a task in a project outside the
\* user's grants (projectId 0 stands for the default project), and updating
\* the status, updating the description or deleting a task whose project is
\* outside them, is answered 403 and changes nothing in the store.
C10_OutOfScopeForbidden ==
    \A u \in Restricted(db) :
        /\ \A p \in ProjectIDInputs, title \in Titles \cup {<<>>}, c \in Comments :
              (IF p = 0 THEN DefaultProjectID ELSE p) \notin Grants(u)
                 => createTask(db, AuthOf(u), title, c, p) = Refused
        /\ \A t \in DOMAIN db.tasks :
              db.tasks[t].project_id \notin Grants(u) =>
                 /\ \A st \in StatusInputs : updateStatus(db, AuthOf(u), t, st) = Refused
                 /\ \A c \in Comments : updateComment(db, AuthOf(u), t, c) = Refused
                 /\ deleteTaskHandler(db, AuthOf(u), t) = Refused

\* A restricted user has a grant for one project and none for another in
\* which a task is stored and has been worked on; its requests on that
\* task and for a new task there are refused and leave the tasks alone.
C10_Witness ==
    \E u \in Restricted(db), t \in DOMAIN db.tasks :
        /\ Grants(u) # {}
        /\ db.tasks[t].project_id \notin Grants(u)
        /\ ProjectExists(db, db.tasks[t].project_id)
        /\ updateStatus(db, AuthOf(u), t, "done").code = StatusForbidden
        /\ deleteTaskHandler(db, AuthOf(u), t).db.tasks = db.tasks
        /\ createTask(db, AuthOf(u), <<"t">>, <<>>, db.tasks[t].project_id).code
              = StatusForbidden
        /\ db.tasks[t].status # "new"

\* The tasks stored under the projects in P.
TasksIn(P) == {t \in DOMAIN db.tasks : db.tasks[t].project_id \in P}

\* The projectId parameter of GET /api/tasks: absent, a project id, a
\* negative number, not a number.
ProjectQueries == {<<>>, Itoa(0 - 1), <<120>>} \cup {Itoa(p) : p \in ProjectIDInputs}

\* C11: a restricted user who lists the tasks without a projectId gets 200
\* and exactly the tasks whose project_id is among the user's grants.
C11_RestrictedListsGrantedTasks ==
    \A u \in Restricted(db) :
        listTasks(db, AuthOf(u), <<>>) = [code |-> StatusOK, tasks |-> TasksIn(Grants(u))]

\* C12: a restricted user who lists the tasks of projectId p is answered 403
\* when p is not among the user's grants, and otherwise 200 with exactly the
\* tasks whose project_id is p.
C12_ExplicitProjectScoped ==
    \A u \in Restricted(db), q \in ProjectQueries \ {<<>>} :
        LET p == ParseInt(q)
            r == listTasks(db, AuthOf(u), q)
        IN p.err = ErrNone =>
              IF p.val \notin Grants(u)
              THEN r = [code |-> StatusForbidden, tasks |-> {}]
              ELSE r = [code |-> StatusOK, tasks |-> TasksIn({p.val})]

\* A restricted user holds two projects that both have tasks, and lists one
\* of them; a third id is not granted.
C12_Witness ==
    \E u \in Restricted(db) : \E p, p2 \in Grants(u) :
        /\ p # p2
        /\ TasksIn({p}) # {} /\ TasksIn({p2}) # {}
        /\ listTasks(db, AuthOf(u), Itoa(p)).tasks = TasksIn({p})
        /\ \E p3 \in ProjectIDInputs \ Grants(u) :
              listTasks(db, AuthOf(u), Itoa(p3)).code = StatusForbidden

\* The grant rows of user u in store d.
GrantsIn(d, u) == {g[2] : g \in {x \in d.user_projects : x[1] = u}}

\* C13: SetUserProjects(u, ids) with an id that names no project fails and
\* changes nothing; a call that succeeds leaves u with exactly the ids as
\* grants and every other user's grants as they were; a call that fails for
\* any reason (a repeated id refused by the primary key) leaves the store as
\* it was before the call.
C13_SetUserProjectsAtomic ==
    \A u \in UserIDInputs, ids \in GrantInputs \cup {<<1, MaxProjects + 1>>} :
        LET r == SetUserProjects(db, u, ids)
        IN /\ (\E i \in 1..Len(ids) : ~ProjectExists(db, ids[i])) => r.err # ErrNone
           /\ r.err # ErrNone => r.db = db
           /\ r.err = ErrNone =>
                 /\ GrantsIn(r.db, u) = SeqToSet(ids)
                 /\ \A v \in UserIDInputs \ {u} : GrantsIn(r.db, v) = GrantsIn(db, v)
                 /\ [r.db EXCEPT !.user_projects = db.user_projects] = db

\* An admin's PATCH has replaced a user's grants with two projects; from
\* there a list that repeats an id is refused in the middle of the inserts
\* and a list with a missing id is refused before the DELETE.
C13_Witness ==
    /\ last.op = "PATCH /api/users/"
    /\ last.code = StatusOK
    /\ GrantsIn(db, last.id) = {1, 2}
    /\ SetUserProjects(db, last.id, <<2, 2>>).err = ErrUnique
    /\ \E p \in 1..MaxProjects :
          /\ ~ProjectExists(db, p)
          /\ SetUserProjects(db, last.id, <<p>>).err = ErrProjectNotFound

\* The answer to DELETE /api/projects/{id} sent by caller u (0: no cookie).
DeleteAs(u, id) ==
    LET g == requireUser(db, Session(db, u, now), now)
    IN IF g.code # 0 THEN Resp(db, g.code, 0) ELSE deleteProjectHandler(db, g.auth, id)

\* What every DELETE request that could arrive now would do.
DeleteOnlyByAdmin ==
    /\ DefaultProjectID \in DOMAIN db.projects
    /\ \A u \in Callers(db), id \in ProjectIDInputs :
          LET r == DeleteAs(u, id)
          IN /\ id = DefaultProjectID => r.db = db /\ r.code \notin {StatusOK, StatusNoContent}
             /\ (u \in DOMAIN db.users /\ db.users[u].role = "user") =>
                   r.db = db /\ (id # DefaultProjectID => r.code = StatusForbidden)
             /\ r.db # db =>
                   /\ u \in DOMAIN db.users /\ db.users[u].role = "admin"
                   /\ id # DefaultProjectID
                   /\ DOMAIN r.db.projects = DOMAIN db.projects \ {id}

\* A step that removes a project is a DELETE request for that project,
\* answered 204.
RemovedByDelete ==
    \A p \in DOMAIN db.projects \ DOMAIN db'.projects :
        /\ last'.op = "DELETE /api/projects/"
        /\ last'.id = p
        /\ last'.code = StatusNoContent

\* C14: over the HTTP and bot operations a project disappears only in a
\* DELETE request for it, and a DELETE request removes a project only when
\* the caller's stored role is admin and the target is not the default
\* project: the default project is refused for every caller, a non-admin
\* is answered 403 also for a project that user created, and the default
\* project is in the store in every state.
C14_ProjectsRemovedOnlyByAdmin == []DeleteOnlyByAdmin /\ [][RemovedByDelete]_vars

\* An admin has deleted a project, a restricted user's own project is still
\* there and that user's DELETE of it is answered 403, and the admin's
\* DELETE of the default project is answered 400.
C14_Witness ==
    /\ last.op = "DELETE /api/projects/"
    /\ last.code = StatusNoContent
    /\ \E p \in DOMAIN owner :
          /\ ProjectExists(db, p)
          /\ db.users[owner[p]].role = "user"
          /\ DeleteAs(owner[p], p) = Resp(db, StatusForbidden, 0)
    /\ \E a \in DOMAIN db.users :
          /\ db.users[a].role = "admin"
          /\ DeleteAs(a, DefaultProjectID) = Resp(db, StatusBadRequest, 0)

\* C15: when DeleteTask(t) succeeds, and when DeleteProject removes the
\* tasks of a project, no comment of a removed task is left in the store.
C15_CommentsGoWithTask ==
    /\ \A t \in TaskIDInputs :
          LET r == DeleteTask(db, t)
          IN r.err = ErrNone => ListTaskComments(r.db, t) = {}
    /\ \A p \in ProjectIDInputs :
          LET r == DeleteProject(db, p)
          IN r.err = ErrNone =>
                \A t \in DOMAIN db.tasks \ DOMAIN r.db.tasks : ListTaskComments(r.db, t) = {}

\* C16: InsertTask for a project id that names no project fails with
\* "project not found" and leaves the tasks as they were; for an existing
\* project it adds exactly one row, with status new, the given project_id
\* and an id no other task has or had, and leaves the other rows alone.
C16_InsertTask ==
    \A p \in ProjectIDInputs \cup {MaxProjects + 1}, title \in Titles, c \in Comments :
        LET r == InsertTask(db, title, c, p)
        IN IF ~ProjectExists(db, p)
           THEN r.err = ErrProjectNotFound /\ r.db = db /\ r.task = NoTask
           ELSE /\ r.err = ErrNone
                /\ r.task.ID \notin 0..db.seq.tasks
                /\ DOMAIN r.db.tasks = DOMAIN db.tasks \cup {r.task.ID}
                /\ \A t \in DOMAIN db.tasks : r.db.tasks[t] = db.tasks[t]
                /\ r.db.tasks[r.task.ID] =
                      [title |-> title, status |-> "new", description |-> c, project_id |-> p]
                /\ r.task.Status = "new" /\ r.task.ProjectID = p

\* A second task has been inserted after the first was set to done and
\* deleted: it got a fresh id and status new; an InsertTask for a project
\* that does not exist is refused from here.
C16_Witness ==
    /\ last.op = "InsertTask"
    /\ last.code = ErrNone
    /\ last.id = 2
    /\ 1 \notin DOMAIN db.tasks
    /\ db.tasks[2].status = "new"
    /\ \E p \in 1..MaxProjects :
          /\ ~ProjectExists(db, p)
          /\ InsertTask(db, <<"t">>, <<>>, p).err = ErrProjectNotFound

\* The three values a task's status may take.
ThreeStatuses == {"new", "in_progress", "done"}

\* C17: SetTaskStatus(id, s) with s outside new, in_progress, done fails
\* with ErrInvalidStatus and changes nothing, for an id that exists and for
\* one that does not; with a valid s and a missing id it fails with
\* sql.ErrNoRows and changes nothing; and every stored task has one of the
\* three statuses.
C17_StatusValidated ==
    /\ \A t \in DOMAIN db.tasks : db.tasks[t].status \in ThreeStatuses
    /\ \A id \in 0..(MaxTasks + 1), s \in StatusInputs \cup {"", "NEW"} :
          LET r == SetTaskStatus(db, id, s)
          IN /\ s \notin ThreeStatuses =>
                   r = [db |-> db, err |-> ErrInvalidStatus, task |-> NoTask]
             /\ (s \in ThreeStatuses /\ id \notin DOMAIN db.tasks) =>
                   r = [db |-> db, err |-> ErrNoRows, task |-> NoTask]

\* SetTaskStatus has just been refused for an invalid status on an id that
\* names no task, while a task that was moved to done is stored; a valid
\* status for the missing id is refused with ErrNoRows.
C17_Witness ==
    /\ last.op = "SetTaskStatus"
    /\ last.code = ErrInvalidStatus
    /\ last.id \notin DOMAIN db.tasks
    /\ \E t \in DOMAIN db.tasks : db.tasks[t].status = "done"
    /\ SetTaskStatus(db, last.id, "done").err = ErrNoRows

\* C18: for every stored task, whatever its status, SetTaskStatus to each
\* of new, in_progress and done succeeds in one call, the current value
\* included: the task then has that status, nothing else in the store has
\* changed, and the task returned is the stored one.
C18_AnyStatusFromAny ==
    \A t \in DOMAIN db.tasks, s \in ThreeStatuses :
        LET r == SetTaskStatus(db, t, s)
        IN /\ r.err = ErrNone
           /\ r.db = [db EXCEPT !.tasks[t].status = s]
           /\ r.task = GetTask(r.db, t).task
           /\ r.task.Status = s

\* A task has been moved to done by SetTaskStatus; from there it can be
\* reopened to new, moved to in_progress, or set to done again.
C18_Witness ==
    /\ last.op = "SetTaskStatus"
    /\ last.code = ErrNone
    /\ last.id \in DOMAIN db.tasks
    /\ db.tasks[last.id].status = "done"
    /\ \A s \in ThreeStatuses :
          SetTaskStatus(db, last.id, s).db.tasks[last.id].status = s

\* C19: when POST /api/users or POST /api/auth/register answers 200, one
\* user has been added, and the grants of that user in the store the call
\* leaves are exactly the default project.
C19_NewUserHasDefaultGrant ==
    \A e \in Emails, pw \in Passwords :
        /\ \A role \in RoleInputs :
              LET r == createUserHandler(db, e, pw, role)
              IN r.code = StatusOK =>
                    /\ DOMAIN r.db.users = DOMAIN db.users \cup {r.id}
                    /\ r.id \notin DOMAIN db.users
                    /\ GrantsIn(r.db, r.id) = {DefaultProjectID}
        /\ LET r == handleRegister(db, e, pw, now)
           IN r.code = StatusOK =>
                 /\ Cardinality(DOMAIN r.db.users \ DOMAIN db.users) = 1
                 /\ \A u \in DOMAIN r.db.users \ DOMAIN db.users :
                       GrantsIn(r.db, u) = {DefaultProjectID}

\* The admin has just created a restricted user, who holds the default
\* project and nothing else.
C19_Witness ==
    /\ last.op = "POST /api/users"
    /\ last.code = StatusOK
    /\ last.id \in DOMAIN db.users
    /\ db.users[last.id].role = "user"
    /\ GrantsIn(db, last.id) = {DefaultProjectID}

\* C20: GET /api/projects answers an admin with all the stored projects, and
\* a restricted user with exactly the stored projects that are among the
\* user's grants: no id of a deleted project, no project without a grant.
C20_ProjectListScoped ==
    \A u \in DOMAIN db.users :
        /\ db.users[u].role = "admin" => listProjects(db, AuthOf(u)) = DOMAIN db.projects
        /\ db.users[u].role = "user" =>
              listProjects(db, AuthOf(u)) = DOMAIN db.projects \cap GrantsIn(db, u)

\* After a project was deleted a restricted user still holds the grant row
\* of a project that is gone, holds one of a project that exists, and lacks
\* one for another project that exists.
C20_Witness ==
    /\ last.op = "DELETE /api/projects/"
    /\ last.code = StatusNoContent
    /\ \E u \in Restricted(db) :
          /\ GrantsIn(db, u) \ DOMAIN db.projects # {}
          /\ GrantsIn(db, u) \cap DOMAIN db.projects # {}
          /\ DOMAIN db.projects \ GrantsIn(db, u) # {}
          /\ listProjects(db, AuthOf(u)) # GrantsIn(db, u)

\* Cookies that do not authenticate anyone now: none, text that is no
\* token, a token signed with another secret, a token that has expired, a
\* valid token for a user id that is not stored, a valid token of a blocked
\* user, and every kept cookie that has expired or whose user is blocked.
BadCookies ==
    {NoCookie, <<120>>, <<Dot>>}
    \cup {PayloadSegment(c) : c \in cookies}
    \cup {c \o <<Dot>> \o SignatureSegment(c) : c \in cookies}
    \cup {createToken(UserOf(db, u), <<7>>, now) : u \in DOMAIN db.users}
    \cup {createToken(UserOf(db, u), Secret, now - authExpiry - 1) : u \in DOMAIN db.users}
    \cup {createToken([NoUser EXCEPT !.ID = db.seq.users + 1, !.Role = "admin"], Secret, now)}
    \cup {createToken(UserOf(db, u), Secret, now) :
             u \in {v \in DOMAIN db.users : db.users[v].role = "blocked"}}
    \cup {c \in cookies : \/ Claims(c).err # ErrNone
                          \/ db.users[Claims(c).claims.UserID].role = "blocked"}

\* C21: behind requireUser and behind requireAdmin a request without a
\* cookie, with a malformed token, a wrong signature, an expired token, an
\* unknown user id or a blocked user is answered 401 in every case and is
\* not handed to the wrapped handler, so the store stays as it is.
C21_UnauthenticatedAlike ==
    \A c \in BadCookies :
        /\ requireUser(db, c, now) = [code |-> StatusUnauthorized, auth |-> NoAuth]
        /\ requireAdmin(db, c, now) = [code |-> StatusUnauthorized, auth |-> NoAuth]
        /\ authenticate(db, c, now).user = NoUser

\* One kept cookie has expired and another, not expired, belongs to a user
\* an admin has blocked since; both are answered 401.
C21_Witness ==
    /\ last.op = "PATCH /api/users/" /\ last.code = StatusOK
    /\ \E c, e \in cookies :
          /\ Claims(c).err # ErrNone
          /\ Claims(e).err = ErrNone
          /\ db.users[Claims(e).claims.UserID].role = "blocked"
          /\ requireUser(db, c, now).code = StatusUnauthorized
          /\ requireUser(db, e, now).code = StatusUnauthorized

\* C22: when calls of SetTaskStatus and SetTaskDescription on the same task
\* overlap, the stored value of a column is the value of the UPDATE that
\* ran last on it, a call whose UPDATE has run returns without error, and a
\* call is refused only for its own input (a status outside the three
\* values, an id that names no task), never because of another call.
C22_LastWriterWins ==
    /\ \A k \in DOMAIN owner : db.tasks[k[1]][k[2]] = owner[k]
    /\ \A p \in 1..NProcs :
          /\ procs[p].pc = "select" => GetTask(db, procs[p].call.id).err = ErrNone
          /\ procs[p].pc = "returned" =>
                LET c == procs[p].call
                IN procs[p].err =
                      IF c.column = "status" /\ c.value \notin ThreeStatuses
                      THEN ErrInvalidStatus
                      ELSE IF c.id \notin DOMAIN db.tasks THEN ErrNoRows
                      ELSE ErrNone

\* Two calls have both run their UPDATE of the same column of the same task
\* with different values and neither has returned; the row holds the value
\* of the later one.
C22_Witness ==
    \E p, q \in 1..NProcs :
        /\ p # q
        /\ procs[p].pc = "select" /\ procs[q].pc = "select"
        /\ procs[p].call.id = procs[q].call.id
        /\ procs[p].call.column = "status" /\ procs[q].call.column = "status"
        /\ procs[p].call.value = "done" /\ procs[q].call.value = "new"
        /\ db.tasks[procs[p].call.id].status = "new"

C24_NotFoundBeforeScope ==
    \A u \in Restricted(db), t \in 1..(MaxTasks + 1) :
        LET answers == {updateStatus(db, AuthOf(u), t, st) : st \in StatusInputs}
                       \cup {updateComment(db, AuthOf(u), t, c) : c \in Comments}
                       \cup {deleteTaskHandler(db, AuthOf(u), t)}
        IN /\ t \notin DOMAIN db.tasks => answers = {Resp(db, StatusNotFound, 0)}
           /\ (t \in DOMAIN db.tasks /\ db.tasks[t].project_id \notin GrantsIn(db, u))
                 => answers = {Resp(db, StatusForbidden, 0)}

\* A restricted user has no grant for the project of a stored task, and
\* another task id is free (its task was deleted): the DELETE of the first
\* is answered 403 and that of the second 404.
C24_Witness ==
    /\ last.op = "DELETE /api/tasks/"
    /\ last.code = StatusNoContent
    /\ \E u \in Restricted(db), t \in DOMAIN db.tasks :
          /\ db.tasks[t].project_id \notin GrantsIn(db, u)
          /\ deleteTaskHandler(db, AuthOf(u), t).code = StatusForbidden
          /\ deleteTaskHandler(db, AuthOf(u), last.id).code = StatusNotFound

\* C25: the project_id of every stored task names a stored project, also
\* when an InsertTask and a DeleteProject of the same project overlap.
C25_TaskProjectExists ==
    \A t \in DOMAIN db.tasks : ProjectExists(db, db.tasks[t].project_id)

\* C26: when requests that change the grants of one restricted user overlap
\* (two POST /api/projects by the user, or one and an admin's PATCH of the
\* user's projectIds), then once they have all finished the user holds a
\* grant for every project it made in them, unless an admin's PATCH took
\* it away afterwards.
C26_NoGrantLost ==
    (\A q \in 1..NProcs : procs[q].pc = "idle") =>
        \A p \in DOMAIN owner : <<owner[p], p>> \in db.user_projects

\* C27: a PATCH /api/users/{id} that is answered with an error status
\* leaves the role, the password hash and the grants of the user as they
\* were, also when the body has several of role, password and projectIds
\* and a later one of them is refused.
C27_FailedPatchChangesNothing ==
    \A id \in UserIDInputs, b \in RoleBodies \cup PasswordBodies \cup GrantBodies \cup MixedBodies :
        LET r == handleUserActions(db, id, b.role, b.password, b.hasIDs, b.projectIDs)
        IN r.code # StatusOK =>
              /\ r.db.users = db.users
              /\ GrantsIn(r.db, id) = GrantsIn(db, id)

\* C28: every grant row names a stored user: no request, and no PATCH
\* /api/users/{id} with projectIds for an id that names no user, adds a row
\* for such an id.
C28_GrantsNameUsers == \A g \in db.user_projects : g[1] \in DOMAIN db.users

\* C29: a restricted user without any grant gets no task from GET
\* /api/tasks, with or without a projectId: the handler answers 403 (400
\* for a projectId that is no number) and FetchTasks, for which an empty
\* allowed set means no filter, is not called.
C29_NoGrantNoTask ==
    \A u \in Restricted(db) :
        GrantsIn(db, u) = {} =>
            \A q \in ProjectQueries :
                listTasks(db, AuthOf(u), q) =
                    [code |-> IF ParseInt(q).err # ErrNone /\ q # <<>>
                              THEN StatusBadRequest ELSE StatusForbidden,
                     tasks |-> {}]

\* An admin has taken all grants from a restricted user while tasks are
\* stored; FetchTasks with that user's empty allowed set would return all
\* of them, and the handler answers 403.
C29_Witness ==
    /\ last.op = "PATCH /api/users/"
    /\ last.code = StatusOK
    /\ last.id \in Restricted(db)
    /\ GrantsIn(db, last.id) = {}
    /\ db.tasks # <<>>
    /\ FetchTasks(db, 0, "", AuthOf(last.id).allowed) = DOMAIN db.tasks
    /\ listTasks(db, AuthOf(last.id), <<>>).code = StatusForbidden

\* C30: a project that appears in the store gets an id above every id the
\* projects table has handed out before, so no grant row written earlier,
\* in particular none left behind for a deleted project, names it, and the
\* restricted holder of such a row does not find the new project in GET
\* /api/projects unless the same request granted it.
C30_DeletedIdsStayDead ==
    [][\A p \in DOMAIN db'.projects \ DOMAIN db.projects :
          /\ p > db.seq.projects
          /\ \A g \in db.user_projects : g[2] # p
          /\ \A u \in Restricted(db') :
                <<u, p>> \notin db'.user_projects =>
                    p \notin listProjects(db', requireUser(db', Session(db', u, now'), now').auth)]_vars

\* The bot has created a project after a project was deleted whose grant
\* row is still stored; the row's holder does not see the new project.
C30_Witness ==
    /\ last.op = "/project"
    /\ last.id \in DOMAIN db.projects
    /\ \E g \in db.user_projects :
          /\ g[2] \notin DOMAIN db.projects
          /\ g[2] < last.id
          /\ g[1] \in Restricted(db)
          /\ last.id \notin listProjects(db, AuthOf(g[1]))

====
